---- MODULE Spec2Model ----
(***************************************************************************)
(* Canvas ETL service (container/app): the job dispatcher of main.py, the  *)
(* batch processors of ingestion.py and the transformation engine of       *)
(* transformations.py, run against a warehouse whose tables are modelled   *)
(* as sequences of rows.  Every session.sql(...).collect() is one atomic   *)
(* step; an external producer appends raw rows between steps.             *)
(***************************************************************************)
EXTENDS Integers, Sequences, FiniteSets, TLC

\* ------------------------------------------------------------------ bounds
MaxRows == 2    \* raw rows the external producer writes in one behaviour
MaxJobs == 2    \* request rows (jobs, transformations) dispatched in one behaviour
MaxBatch == 2   \* rows in the data list of one request
MaxHandlers == 2    \* handler coroutines alive on the event loop at once

\* ------------------------------------------------------------ vocabulary
NULL == 0        \* SQL NULL of a surrogate key (an unmatched LEFT JOIN)
NoRef == ""      \* a payload field the entity does not have

RAW_STUDENTS == "RAW_STUDENTS"
RAW_COURSES == "RAW_COURSES"
RAW_ENROLLMENTS == "RAW_ENROLLMENTS"
RAW_SUBMISSIONS == "RAW_SUBMISSIONS"
RAW_ACTIVITY_LOGS == "RAW_ACTIVITY_LOGS"
RAW_ASSIGNMENTS == "RAW_ASSIGNMENTS"

RawTables ==
    {RAW_STUDENTS, RAW_COURSES, RAW_ENROLLMENTS, RAW_SUBMISSIONS,
     RAW_ACTIVITY_LOGS, RAW_ASSIGNMENTS}

DIM_STUDENTS == "DIM_STUDENTS"
DIM_COURSES == "DIM_COURSES"
DIM_ASSIGNMENTS == "DIM_ASSIGNMENTS"
FACT_ENROLLMENTS == "FACT_ENROLLMENTS"
FACT_SUBMISSIONS == "FACT_SUBMISSIONS"
FACT_ACTIVITY_LOGS == "FACT_ACTIVITY_LOGS"

CuratedTables ==
    {DIM_STUDENTS, DIM_COURSES, DIM_ASSIGNMENTS, FACT_ENROLLMENTS,
     FACT_SUBMISSIONS, FACT_ACTIVITY_LOGS}

AGG_STUDENT_COURSE_PERFORMANCE == "AGG_STUDENT_COURSE_PERFORMANCE"
AGG_COURSE_ANALYTICS == "AGG_COURSE_ANALYTICS"

AggTables == {AGG_STUDENT_COURSE_PERFORMANCE, AGG_COURSE_ANALYTICS}

\* The five batch processors of DataIngestionPipeline.
ProcessMethods ==
    {"process_students", "process_courses", "process_enrollments",
     "process_submissions", "process_activity_logs"}

\* Raw table read by a batch processor (transform_assignments is the sixth).
RawOf(m) ==
    CASE m = "process_students" -> RAW_STUDENTS
      [] m = "process_courses" -> RAW_COURSES
      [] m = "process_enrollments" -> RAW_ENROLLMENTS
      [] m = "process_submissions" -> RAW_SUBMISSIONS
      [] m = "process_activity_logs" -> RAW_ACTIVITY_LOGS
      [] m = "transform_assignments" -> RAW_ASSIGNMENTS

\* Curated table written by a batch processor.
CuratedOf(m) ==
    CASE m = "process_students" -> DIM_STUDENTS
      [] m = "process_courses" -> DIM_COURSES
      [] m = "process_enrollments" -> FACT_ENROLLMENTS
      [] m = "process_submissions" -> FACT_SUBMISSIONS
      [] m = "process_activity_logs" -> FACT_ACTIVITY_LOGS
      [] m = "transform_assignments" -> DIM_ASSIGNMENTS

BatchMethods == ProcessMethods \cup {"transform_assignments"}

\* Dimension tables the upsert of a batch processor LEFT JOINs, as
\* <<table joined on payload.r1, table joined on payload.r2>>; "" = no join.
JoinsOf(m) ==
    CASE m = "process_enrollments" -> <<DIM_STUDENTS, DIM_COURSES>>
      [] m = "process_submissions" -> <<DIM_STUDENTS, DIM_ASSIGNMENTS>>
      [] m = "process_activity_logs" -> <<DIM_STUDENTS, DIM_COURSES>>
      [] OTHER -> <<"", "">>

\* ---------------------------------------------------------------- payloads
(* A raw row is [key, r1, r2, v, status]: key is the business key of the    *)
(* payload, r1 and r2 the business keys it references (NoRef when the entity*)
(* has no such reference), v the version of the payload: every other field  *)
(* of the payload is a function of v.  raw_id is the row's position.        *)
Pay(k, a, b, ver) == [key |-> k, r1 |-> a, r2 |-> b, v |-> ver]

\* The payloads the external producer writes, per raw table.
Payloads(t) ==
    CASE t = RAW_STUDENTS -> {Pay("S1", NoRef, NoRef, 1), Pay("S1", NoRef, NoRef, 2)}
      [] t = RAW_COURSES -> {Pay("C1", NoRef, NoRef, 1)}
      [] t = RAW_ASSIGNMENTS -> {Pay("A1", "C1", NoRef, 1)}
      [] t = RAW_ENROLLMENTS -> {Pay("E1", "S1", "C1", 1), Pay("E1", "S1", "C1", 2)}
      [] t = RAW_SUBMISSIONS -> {Pay("U1", "S1", "A1", 1)}
      [] t = RAW_ACTIVITY_LOGS -> {Pay("L1", "S1", "C1", 1)}

\* enrollment_status of a student payload: version 1 is 'Active'.
IsActive(ver) == ver = 1

\* ------------------------------------------------------------ raw tables
\* ingestion.py _get_pending_count: COUNT(*) WHERE processing_status = 'PENDING'
PendingIdx(rows) == {i \in DOMAIN rows : rows[i].status = "PENDING"}

PendingCount(rows) == Cardinality(PendingIdx(rows))

\* An UPDATE whose WHERE clause matches no row.
MarkNothing(rows) == rows

\* ingestion.py _mark_processed: every PENDING row becomes PROCESSED.
MarkProcessed(rows) ==
    [i \in DOMAIN rows |->
        IF rows[i].status = "PENDING"
        THEN [rows[i] EXCEPT !.status = "PROCESSED"]
        ELSE rows[i]]

\* _mark_error(table, error_ids): UPDATE ... SET processing_status = 'ERROR'
\* WHERE raw_id IN (error_ids); the raw_id of a row is its position.
MarkError(rows, error_ids) ==
    IF error_ids = {} THEN rows
    ELSE [i \in DOMAIN rows |->
            IF i \in error_ids
            THEN [rows[i] EXCEPT !.status = "ERROR"]
            ELSE rows[i]]

\* --------------------------------------------------------- curated tables
(* A curated row is [key, k1, k2, r1, r2, v, w, ic, src]: key the business  *)
(* key, k1 and k2 the surrogate keys resolved for r1 and r2 (NULL when the  *)
(* LEFT JOIN found no row), v the version held by the columns the MERGE     *)
(* updates, w the version held by the columns it only inserts, ic the      *)
(* is_current flag (FALSE stands for NULL or FALSE), src the raw_id of the *)
(* raw row that inserted it.  The surrogate key of a dimension row is its  *)
(* position in the table.                                                  *)

\* s.student_key / c.course_key / a.assignment_key of the LEFT JOIN on id.
JoinKeys(tbl, id, cur) ==
    IF tbl = "" THEN {NULL}
    ELSE LET M == {j \in DOMAIN cur[tbl] : cur[tbl][j].key = id}
         IN  IF M = {} THEN {NULL} ELSE M

\* The USING (SELECT ... WHERE processing_status = 'PENDING') rows of m:
\* one row per PENDING raw row and per pair of joined dimension rows.
SourceRows(m, rows, cur) ==
    UNION {
        {[rid |-> i, key |-> rows[i].key, k1 |-> a, k2 |-> b,
          r1 |-> rows[i].r1, r2 |-> rows[i].r2, v |-> rows[i].v] :
            a \in JoinKeys(JoinsOf(m)[1], rows[i].r1, cur),
            b \in JoinKeys(JoinsOf(m)[2], rows[i].r2, cur)} :
        i \in PendingIdx(rows)}

Rank(s) == (s.rid * 100 + s.k1) * 100 + s.k2

RECURSIVE InOrder(_)
\* The source rows in scan order (raw_id, then joined keys).
InOrder(S) ==
    IF S = {} THEN <<>>
    ELSE LET s == CHOOSE x \in S : \A y \in S : Rank(x) <= Rank(y)
         IN  <<s>> \o InOrder(S \ {s})

\* The row a source row inserts: VALUES (src.*); is_current is not set.
NewRow(s) ==
    [key |-> s.key, k1 |-> s.k1, k2 |-> s.k2, r1 |-> s.r1, r2 |-> s.r2,
     v |-> s.v, w |-> s.v, ic |-> FALSE, src |-> s.rid]

\* A MERGE whose WHEN MATCHED branch sets every column.
UpdatesEveryColumn(m) == TRUE

\* A WHEN MATCHED branch that also sets the surrogate keys of the join.
UpdatedRowResolving(m, r, s) ==
    [r EXCEPT !.v = s.v, !.k1 = s.k1, !.k2 = s.k2]

\* process_courses updates every column but the key; the other MERGEs leave
\* some columns (enrollment_date, student_key, enrollment_type, ...) as inserted.
UpdatesAllColumns(m) == m = "process_courses"

\* WHEN MATCHED THEN UPDATE SET ... of m, applied to target row r.
UpdatedRow(m, r, s) ==
    IF UpdatesAllColumns(m)
    THEN [r EXCEPT !.v = s.v, !.w = s.v]
    ELSE [r EXCEPT !.v = s.v]

\* A target row matched by several source rows: the MERGE is rejected
\* (nondeterministic update), and the statement raises.
MergeConflict(tgt, S) ==
    \E i \in DOMAIN tgt : Cardinality({s \in S : s.key = tgt[i].key}) > 1

\* A MERGE without its WHEN NOT MATCHED THEN INSERT clause.
MergeUpdateOnly(m, tgt, S) ==
    [i \in DOMAIN tgt |->
        IF \E s \in S : s.key = tgt[i].key
        THEN UpdatedRow(m, tgt[i], CHOOSE s \in S : s.key = tgt[i].key)
        ELSE tgt[i]]

\* MERGE INTO tgt USING S ON tgt.key = src.key: update the matched rows,
\* insert every source row that matches no target row.
Merge(m, tgt, S) ==
    LET upd == [i \in DOMAIN tgt |->
                  IF \E s \in S : s.key = tgt[i].key
                  THEN UpdatedRow(m, tgt[i], CHOOSE s \in S : s.key = tgt[i].key)
                  ELSE tgt[i]]
        new == InOrder({s \in S : \A i \in DOMAIN tgt : tgt[i].key # s.key})
    IN  upd \o [i \in DOMAIN new |-> NewRow(new[i])]

\* An INSERT that skips the rows whose key the target already holds.
InsertMissing(tgt, S) ==
    LET new == InOrder({s \in S : \A i \in DOMAIN tgt : tgt[i].key # s.key})
    IN  tgt \o [i \in DOMAIN new |-> NewRow(new[i])]

\* INSERT INTO FACT_ACTIVITY_LOGS SELECT ...: every source row is appended.
InsertAll(tgt, S) ==
    LET new == InOrder(S) IN tgt \o [i \in DOMAIN new |-> NewRow(new[i])]

\* The upsert statement of batch processor m on the curated store.
Upsert(m, rows, cur) ==
    LET S == SourceRows(m, rows, cur)
        t == CuratedOf(m)
    IN  IF m = "process_activity_logs"
        THEN [cur EXCEPT ![t] = InsertAll(cur[t], S)]
        ELSE [cur EXCEPT ![t] = Merge(m, cur[t], S)]

\* The upsert of m raises on its own (apart from a store failure).
UpsertRejected(m, rows, cur) ==
    /\ m # "process_activity_logs"
    /\ MergeConflict(cur[CuratedOf(m)], SourceRows(m, rows, cur))

\* ------------------------------------------------------- transformations
\* transform_students: UPDATE DIM_STUDENTS SET is_current = TRUE WHERE
\* enrollment_status = 'Active' AND updated_at < one hour ago.  updated_at is
\* not kept in the model: U is the set of rows that are older than one hour.
StaleCandidates(tgt) == {i \in DOMAIN tgt : IsActive(tgt[i].v)}

SetCurrent(tgt, U) ==
    [i \in DOMAIN tgt |-> IF i \in U THEN [tgt[i] EXCEPT !.ic = TRUE] ELSE tgt[i]]

\* transform_courses: UPDATE DIM_COURSES SET is_current = TRUE
\* WHERE is_current IS NULL OR is_current = FALSE.
NotCurrent(tgt) == {i \in DOMAIN tgt : ~tgt[i].ic}

\* aggregate_student_performance: DIM_STUDENTS s JOIN FACT_ENROLLMENTS e JOIN
\* DIM_COURSES c, GROUP BY s.student_id, c.course_id, c.term, e.final_grade.
StudentPerformanceRows(cur, at) ==
    LET groups ==
          {[student_id |-> cur[DIM_STUDENTS][i].key,
            course_id |-> cur[DIM_COURSES][k].key,
            term |-> cur[DIM_COURSES][k].v,
            current_grade |-> cur[FACT_ENROLLMENTS][j].v] :
              <<i, j, k>> \in
                {x \in (DOMAIN cur[DIM_STUDENTS]) \X (DOMAIN cur[FACT_ENROLLMENTS])
                        \X (DOMAIN cur[DIM_COURSES]) :
                    /\ cur[DIM_STUDENTS][x[1]].key = cur[FACT_ENROLLMENTS][x[2]].r1
                    /\ cur[FACT_ENROLLMENTS][x[2]].r2 = cur[DIM_COURSES][x[3]].key}}
    IN  {[student_id |-> g.student_id, course_id |-> g.course_id,
          term |-> g.term, current_grade |-> g.current_grade,
          total_assignments |->
              Cardinality({cur[DIM_ASSIGNMENTS][a].key :
                  a \in {x \in DOMAIN cur[DIM_ASSIGNMENTS] :
                            cur[DIM_ASSIGNMENTS][x].r1 = g.course_id}}),
          completed_assignments |->
              Cardinality({cur[FACT_SUBMISSIONS][u].key :
                  u \in {x \in DOMAIN cur[FACT_SUBMISSIONS] :
                      /\ cur[FACT_SUBMISSIONS][x].r1 = g.student_id
                      /\ \E a \in DOMAIN cur[DIM_ASSIGNMENTS] :
                            /\ cur[DIM_ASSIGNMENTS][a].r1 = g.course_id
                            /\ cur[DIM_ASSIGNMENTS][a].key = cur[FACT_SUBMISSIONS][x].r2}}),
          calculated_at |-> at] : g \in groups}

\* aggregate_course_analytics: DIM_COURSES c JOIN FACT_ENROLLMENTS e,
\* GROUP BY c.course_id, c.term.
CourseAnalyticsRows(cur, at) ==
    LET groups ==
          {[course_id |-> cur[DIM_COURSES][k].key, term |-> cur[DIM_COURSES][k].v] :
              k \in {x \in DOMAIN cur[DIM_COURSES] :
                        \E j \in DOMAIN cur[FACT_ENROLLMENTS] :
                            cur[FACT_ENROLLMENTS][j].r2 = cur[DIM_COURSES][x].key}}
    IN  {[course_id |-> g.course_id, term |-> g.term,
          total_enrolled |->
              Cardinality({cur[FACT_ENROLLMENTS][j].r1 :
                  j \in {x \in DOMAIN cur[FACT_ENROLLMENTS] :
                            cur[FACT_ENROLLMENTS][x].r2 = g.course_id}}),
          calculated_at |-> at] : g \in groups}

\* The rows the INSERT ... SELECT of an aggregation runner computes.
AggRows(m, cur, at) ==
    IF m = "aggregate_student_performance"
    THEN StudentPerformanceRows(cur, at)
    ELSE CourseAnalyticsRows(cur, at)

AggOf(m) ==
    IF m = "aggregate_student_performance"
    THEN AGG_STUDENT_COURSE_PERFORMANCE
    ELSE AGG_COURSE_ANALYTICS

\* calculate_student_risk_scores: the students of AGG_STUDENT_COURSE_PERFORMANCE
\* that can pass the HAVING clause.  avg_score and the late and missing counts
\* are NULL or 0 for a group without a submission, so only students with a
\* completed assignment can be counted.
RiskCandidates(rows) ==
    {r.student_id : r \in {x \in rows : x.completed_assignments > 0}}

\* -------------------------------------------------------------- dispatcher
JobTypes ==
    {"FULL_REFRESH", "INCREMENTAL", "STUDENTS", "COURSES", "ENROLLMENTS",
     "SUBMISSIONS", "ACTIVITY"}

\* Job-type tokens a caller sends: the seven known ones and an unknown one.
Tokens == JobTypes \cup {"BOGUS"}

\* ingestion.py process_all_raw_data
ProcessAllRawData ==
    <<"process_students", "process_courses", "process_enrollments",
      "process_submissions", "process_activity_logs">>

\* transformations.py run_all_transformations
RunAllTransformations ==
    <<"transform_students", "transform_courses", "transform_assignments",
      "aggregate_student_performance", "aggregate_course_analytics",
      "calculate_student_risk_scores">>

\* A chain whose STUDENTS branch also runs the course processor.
JobMethodsWide(job_type) ==
    CASE job_type = "FULL_REFRESH" -> ProcessAllRawData \o RunAllTransformations
      [] job_type = "INCREMENTAL" -> ProcessAllRawData \o RunAllTransformations
      [] job_type = "STUDENTS" ->
             <<"process_students", "process_courses", "transform_students">>
      [] job_type = "COURSES" -> <<"process_courses", "transform_courses">>
      [] job_type = "ENROLLMENTS" -> <<"process_enrollments", "transform_enrollments">>
      [] job_type = "SUBMISSIONS" -> <<"process_submissions", "transform_submissions">>
      [] job_type = "ACTIVITY" -> <<"process_activity_logs", "transform_activity_logs">>
      [] OTHER -> <<>>

\* The if/elif chain of run_etl_snowflake and execute_etl_job: the methods a
\* job type calls, in order.  process_incremental and
\* run_incremental_transformations delegate to the full versions.
JobMethods(job_type) ==
    CASE job_type = "FULL_REFRESH" -> ProcessAllRawData \o RunAllTransformations
      [] job_type = "INCREMENTAL" -> ProcessAllRawData \o RunAllTransformations
      [] job_type = "STUDENTS" -> <<"process_students", "transform_students">>
      [] job_type = "COURSES" -> <<"process_courses", "transform_courses">>
      [] job_type = "ENROLLMENTS" -> <<"process_enrollments", "transform_enrollments">>
      [] job_type = "SUBMISSIONS" -> <<"process_submissions", "transform_submissions">>
      [] job_type = "ACTIVITY" -> <<"process_activity_logs", "transform_activity_logs">>
      [] OTHER -> <<>>

\* A chain without its else branch: every token is dispatched.
AnyJobType(job_type) == TRUE

\* The else branch of the chain is taken for every other token.
KnownJobType(job_type) == job_type \in JobTypes

\* method_map of transform_snowflake
TransformationNames ==
    {"student_dimension", "course_dimension", "assignment_dimension",
     "enrollment_fact", "submission_fact", "activity_fact",
     "student_performance_agg", "course_analytics_agg"}

MethodMap(name) ==
    CASE name = "student_dimension" -> "transform_students"
      [] name = "course_dimension" -> "transform_courses"
      [] name = "assignment_dimension" -> "transform_assignments"
      [] name = "enrollment_fact" -> "transform_enrollments"
      [] name = "submission_fact" -> "transform_submissions"
      [] name = "activity_fact" -> "transform_activity_logs"
      [] name = "student_performance_agg" -> "aggregate_student_performance"
      [] name = "course_analytics_agg" -> "aggregate_course_analytics"

NoopTransforms ==
    {"transform_enrollments", "transform_submissions", "transform_activity_logs"}

AggMethods == {"aggregate_student_performance", "aggregate_course_analytics"}

\* A batch processor that marks its rows before it upserts them.
MarkBeforeUpsert(m) ==
    CASE m \in ProcessMethods -> <<"count", "mark", "upsert">>
      [] m = "transform_assignments" -> <<"mark", "upsert">>
      [] m \in {"transform_students", "transform_courses"} -> <<"update">>
      [] m \in AggMethods -> <<"truncate", "insert", "select_count">>
      [] m = "calculate_student_risk_scores" -> <<"select">>
      [] OTHER -> <<>>

\* The session.sql(...) statements of a method, in program order.
MethodStmts(m) ==
    CASE m \in ProcessMethods -> <<"count", "upsert", "mark">>
      [] m = "transform_assignments" -> <<"upsert", "mark">>
      [] m \in {"transform_students", "transform_courses"} -> <<"update">>
      [] m \in AggMethods -> <<"truncate", "insert", "select_count">>
      [] m = "calculate_student_risk_scores" -> <<"select">>
      [] OTHER -> <<>>

\* row[1] if len(row) > 1 else the endpoint's default
SecondOr(row, default) == IF Len(row) > 1 THEN row[2] ELSE default

\* ------------------------------------------------------------------ state
VARIABLES
    raw,        \* RAW schema: raw table -> sequence of raw rows
    cur,        \* CURATED schema: curated table -> sequence of rows
    agg,        \* aggregate table -> sequence of inserted row sets
    job_state,  \* main.py job_state
    h,          \* the request handler being served (the event loop runs one)
    dispatched, \* request rows dispatched so far
    loop,       \* the event loop: its tasks, and the one it is running
    peer        \* a second worker of the service: its handler and job_state

vars == <<raw, cur, agg, job_state, h, dispatched, loop, peer>>

(* The handler record.  kind: the endpoint being served; todo: the request *)
(* rows the loop has not reached yet (a row is drawn when the loop reaches *)
(* it); pos: the position of the next row; results: the reply rows so far  *)
(* (the reply of the request when todo = 0); phase "next": between rows,   *)
(* "run": inside the with-block of a row; reads: the clock readings of the *)
(* row so far.  job, idx: the token and row_index of the current row;      *)
(* methods, mi, si: the methods of the job, the one being executed and its *)
(* next statement; records: the local sum; pending_count: the local of the *)
(* batch processor; session: the Snowpark session of the row; logged: the  *)
(* logger.error lines of the row.                                          *)
(* trace: what happened since the loop reached the row, in order:          *)
(*   [e |-> "row", m |-> token, n |-> row_index]   the loop reached a row  *)
(*   [e |-> "call", m |-> method]                  a method was entered    *)
(*   [e |-> "sql", m, s |-> statement, n |-> count] a statement ran        *)
(*   [e |-> "sqlfail", m, s]                       a statement raised      *)
(*   [e |-> "ret", m, n |-> value]                 a method returned       *)
(*   [e |-> "produce", m |-> raw table]            the producer wrote to   *)
(*                                      the table the method is reading    *)
(* start: the raw tables when the job started; pre: the raw and curated    *)
(* table of the running batch processor when it was called (for an         *)
(* aggregation runner: its aggregate table when it was called); clean: the *)
(* raw tables whose batch processor has returned during this request with  *)
(* no row written to the table since, and the aggregate tables whose       *)
(* runner has inserted during this request with no curated row written or  *)
(* changed since.                                                          *)
Event(e, m, s, n) == [e |-> e, m |-> m, s |-> s, n |-> n]

Idle ==
    [kind |-> "idle", todo |-> 0, pos |-> 0, results |-> <<>>, phase |-> "next",
     reads |-> 0,
     job |-> "", idx |-> 0, job_id |-> "", methods |-> <<>>, mi |-> 1, si |-> 1,
     records |-> 0, pending_count |-> 0, session |-> "none", logged |-> <<>>,
     trace |-> <<>>, start |-> <<>>, pre |-> <<>>, clean |-> {}]

EmptyRaw == [t \in RawTables |-> <<>>]

(* A task of the event loop is the coroutine of one request handler: pc its *)
(* position (none: no request; ready: created, its job not yet run; then   *)
(* the load and the store of the counter it updates; return), kind the     *)
(* endpoint, records the local sum of the job, reg the counter value it    *)
(* loaded for the += in progress.  done and failed are what the tasks of   *)
(* the slot have added to records_processed and to errors.                 *)
(* clock counts the readings of datetime.utcnow() the tasks have taken.    *)
NoTask == [pc |-> "none", kind |-> "", records |-> 0, reg |-> 0,
           done |-> 0, failed |-> 0]

\* No request is being handled: the loop runs no task.
LoopIdle == [running |-> 0, clock |-> 0, co |-> [i \in 1..MaxHandlers |-> NoTask]]

\* The service runs as one worker: there is no second one.
OneWorker == <<>>

\* A second worker that has served no request: job_state as at import.
NoPeer ==
    [h |-> Idle,
     job_state |-> [last_run |-> NULL, records_processed |-> 0, errors |-> 0,
                    running_jobs |-> <<>>]]

\* main.py job_state at import; the warehouse tables are empty.
Init ==
    /\ raw = EmptyRaw
    /\ cur = [t \in CuratedTables |-> <<>>]
    /\ agg = [t \in AggTables |-> <<>>]
    /\ job_state = [last_run |-> NULL, records_processed |-> 0, errors |-> 0,
                    running_jobs |-> <<>>]
    /\ h = Idle
    /\ dispatched = 0
    /\ loop = LoopIdle
    /\ peer = OneWorker

RECURSIVE SumLen(_, _)
SumLen(f, S) ==
    IF S = {} THEN 0
    ELSE LET t == CHOOSE x \in S : TRUE IN Len(f[t]) + SumLen(f, S \ {t})

\* The rows of a raw table that were written before the service started:
\* they carry payload version 0, older than any version the producer writes.
Seeds(rows) == Cardinality({i \in DOMAIN rows : rows[i].v = 0})

RECURSIVE SeedRows(_, _)
SeedRows(f, S) ==
    IF S = {} THEN 0
    ELSE LET t == CHOOSE x \in S : TRUE IN Seeds(f[t]) + SeedRows(f, S \ {t})

\* The service starts over a warehouse that an earlier run of it has filled:
\* enrollment E1 of student S1 was processed while DIM_STUDENTS was empty
\* (its student_key and course_key are NULL), student S1 was processed after
\* it.  job_state is as at import.
SeededRaw ==
    [EmptyRaw EXCEPT
       ![RAW_STUDENTS] = <<[key |-> "S1", r1 |-> NoRef, r2 |-> NoRef,
                            v |-> 0, status |-> "PROCESSED"]>>,
       ![RAW_ENROLLMENTS] = <<[key |-> "E1", r1 |-> "S1", r2 |-> "C1",
                               v |-> 0, status |-> "PROCESSED"]>>]

SeededCur ==
    [[t \in CuratedTables |-> <<>>] EXCEPT
       ![DIM_STUDENTS] = <<[key |-> "S1", k1 |-> NULL, k2 |-> NULL,
                            r1 |-> NoRef, r2 |-> NoRef, v |-> 0, w |-> 0,
                            ic |-> FALSE, src |-> 1]>>,
       ![FACT_ENROLLMENTS] = <<[key |-> "E1", k1 |-> NULL, k2 |-> NULL,
                                r1 |-> "S1", r2 |-> "C1", v |-> 0, w |-> 0,
                                ic |-> FALSE, src |-> 1]>>]

InitSeeded ==
    /\ raw = SeededRaw
    /\ cur = SeededCur
    /\ agg = [t \in AggTables |-> <<>>]
    /\ job_state = [last_run |-> NULL, records_processed |-> 0, errors |-> 0,
                    running_jobs |-> <<>>]
    /\ h = Idle
    /\ dispatched = 0
    /\ loop = LoopIdle
    /\ peer = OneWorker

\* ------------------------------------------------------- external producer
\* The running method reads raw table t and has issued its first statement.
Reading(t) ==
    /\ h.phase = "run"
    /\ h.mi <= Len(h.methods)
    /\ h.methods[h.mi] \in BatchMethods
    /\ RawOf(h.methods[h.mi]) = t
    /\ h.si > 1

\* A producer outside the service appends a PENDING row to a raw table.  A
\* write to a table that the running method does not read commutes with the
\* steps of the job up to the method that reads it, so it is shown at the
\* row boundary; a write to the table being read is shown where it happens.
Produce(t, p) ==
    /\ SumLen(raw, RawTables) - SeedRows(raw, RawTables) < MaxRows
    /\ h.phase = "next" \/ Reading(t)
    /\ raw' = [raw EXCEPT ![t] = Append(@, [key |-> p.key, r1 |-> p.r1, r2 |-> p.r2,
                                            v |-> p.v, status |-> "PENDING"])]
    /\ h' = [h EXCEPT !.clean = @ \ {t},
                      !.trace = IF Reading(t)
                                THEN Append(@, Event("produce", t, "", 0))
                                ELSE @]
    /\ UNCHANGED <<cur, agg, job_state, dispatched, loop, peer>>

\* ------------------------------------------------------- request arrival
\* A request body is a list of n rows [row_index, token] or [row_index],
\* row_index counting from 0.  The rows the loop can find at position pos:
RowsAt(pos, tokens) == {<<pos, t>> : t \in tokens} \cup {<<pos>>}

\* POST /run_etl with n rows
RunEtl(n) ==
    /\ h.kind = "idle"
    /\ dispatched + n <= MaxJobs
    /\ h' = [Idle EXCEPT !.kind = "run_etl", !.todo = n]
    /\ dispatched' = dispatched + n
    /\ UNCHANGED <<raw, cur, agg, job_state, loop, peer>>

\* POST /transform with n rows
Transform(n) ==
    /\ h.kind = "idle"
    /\ dispatched + n <= MaxJobs
    /\ h' = [Idle EXCEPT !.kind = "transform", !.todo = n]
    /\ dispatched' = dispatched + n
    /\ UNCHANGED <<raw, cur, agg, job_state, loop, peer>>

\* execute_etl_job(job_id, job_type, parameters), the background job
ExecuteEtlJob(job_id) ==
    /\ h.kind = "idle"
    /\ dispatched + 1 <= MaxJobs
    /\ h' = [Idle EXCEPT !.kind = "execute_etl_job", !.job_id = job_id, !.todo = 1]
    /\ dispatched' = dispatched + 1
    /\ UNCHANGED <<raw, cur, agg, job_state, loop, peer>>

\* ------------------------------------------------------------ reply rows
\* f"ETL {job_type} completed. Records processed: {records}"
CompletedMsg(job_type, records) ==
    [text |-> "ETL completed", subject |-> job_type, records |-> records]

\* f"Unknown job type: {job_type}"
UnknownJobMsg(job_type) ==
    [text |-> "Unknown job type", subject |-> job_type, records |-> 0]

\* f"Transformation {transformation_name} completed. Records: {records}"
TransformedMsg(name, records) ==
    [text |-> "Transformation completed", subject |-> name, records |-> records]

\* An unknown-transformation message that does not name the transformation.
UnknownTransformationAnonymous(name) ==
    [text |-> "Unknown transformation", subject |-> "", records |-> 0]

\* f"Unknown transformation: {transformation_name}"
UnknownTransformationMsg(name) ==
    [text |-> "Unknown transformation", subject |-> name, records |-> 0]

\* f"Error: {str(e)}"; cause is the exception's text
ErrorMsg(cause) == [text |-> "Error", subject |-> cause, records |-> 0]

\* ------------------------------------------------------- exits of a row
\* An except clause that counts the error on every endpoint.
ErrorsAlways(kind, js) == [js EXCEPT !.errors = @ + 1]

\* An except clause that does not count the error.
ErrorsNotCounted(kind, js) == js

\* job_state after the except clause of the endpoint: run_etl_snowflake and
\* execute_etl_job count the error, transform_snowflake does not.
ErrorsAfter(kind, js) ==
    IF kind \in {"run_etl", "execute_etl_job"}
    THEN [js EXCEPT !.errors = @ + 1]
    ELSE js

\* A finally clause that registers the job instead of removing it.
WithJob(running_jobs, job_id) == Append(running_jobs, job_id)

\* The finally clause of execute_etl_job.
WithoutJob(running_jobs, job_id) ==
    SelectSeq(running_jobs, LAMBDA j : j # job_id)

FinallyAfter(kind, js, job_id) ==
    IF kind = "execute_etl_job"
    THEN [js EXCEPT !.running_jobs = WithoutJob(@, job_id)]
    ELSE js

\* "status": "running" if job_state["running_jobs"] else "idle"
StatusOf(js) == IF js.running_jobs # <<>> THEN "running" ELSE "idle"

\* "active_jobs": len(job_state["running_jobs"])
ActiveJobs(js) == Len(js.running_jobs)

\* What session.close() can do in __exit__: return, or raise.
CloseOutcomes == {"closed", "close_failed"}

\* SnowflakeConnection.__exit__: a session that was handed out is closed; when
\* close() raises the exception is logged as a warning and swallowed, and the
\* session stays as it was.
Exit(hh, closing) ==
    IF hh.session # "open" THEN hh
    ELSE IF closing = "close_failed"
         THEN [hh EXCEPT !.session = "close_failed",
                         !.logged = Append(@, ErrorMsg("close"))]
         ELSE [hh EXCEPT !.session = "closed"]

\* An except clause that logs the error and goes on with the next method.
ExceptedContinue(hh, idx, cause, closing) ==
    [hh EXCEPT !.mi = @ + 1, !.si = 1, !.logged = Append(@, ErrorMsg(cause))]

\* An except clause that logs the error and appends no reply row.
ExceptedSilently(hh, idx, cause, closing) ==
    [Exit(hh, closing) EXCEPT !.phase = "next",
                              !.logged = Append(@, ErrorMsg(cause))]

\* The handler after an exception reached the except clause of the row:
\* __exit__ ran first, then the error is logged and, on the batch endpoints,
\* appended to the results.
Excepted(hh, idx, cause, closing) ==
    [Exit(hh, closing) EXCEPT !.phase = "next",
                              !.logged = Append(@, ErrorMsg(cause)),
                              !.results = IF hh.kind = "execute_etl_job" THEN @
                                          ELSE Append(@, <<idx, ErrorMsg(cause)>>)]

\* A completion that adds the count and leaves last_run as it was.
RecordedCountOnly(kind, js, records, at) ==
    [js EXCEPT !.records_processed = @ + records]

\* A completion that stores the job's count instead of adding it.
RecordedOverwrite(kind, js, records, at) ==
    IF kind = "transform"
    THEN [js EXCEPT !.records_processed = records]
    ELSE [js EXCEPT !.records_processed = records, !.last_run = at]

\* job_state after a job's steps all returned.
Recorded(kind, js, records, at) ==
    IF kind = "transform"
    THEN [js EXCEPT !.records_processed = @ + records]
    ELSE [js EXCEPT !.records_processed = @ + records, !.last_run = at]

\* The handler after a job's steps all returned.
Completed(hh, closing) ==
    [Exit(hh, closing) EXCEPT
               !.phase = "next",
               !.results =
                   CASE hh.kind = "run_etl" ->
                            Append(@, <<hh.idx, CompletedMsg(hh.job, hh.records)>>)
                     [] hh.kind = "transform" ->
                            Append(@, <<hh.idx, TransformedMsg(hh.job, hh.records)>>)
                     [] OTHER -> @]

\* ------------------------------------------------------- start of a row
AtRow == h.kind # "idle" /\ h.phase = "next" /\ h.todo > 0

\* The tokens tried on each endpoint: the known ones and an unknown one.
TokensTried(kind) ==
    IF kind = "transform" THEN TransformationNames \cup {"bogus"} ELSE Tokens

\* The rows the loop can find next; execute_etl_job is given its job_type.
NextRows ==
    IF h.kind = "execute_etl_job" THEN {<<h.pos, t>> : t \in Tokens}
    ELSE RowsAt(h.pos, TokensTried(h.kind))

\* The clock: every reading is later than the one before.  A reading is
\* numbered by the requests and rows accepted before it (d) and the readings
\* the handler has taken for its row.
ClockOf(d, hh) == (d - hh.todo) * 10 + hh.reads + 1

\* datetime.utcnow() read by the handler hh.
Clock(hh) == ClockOf(dispatched, hh)

\* job_type / transformation_name of the current row
TokenOf(kind, row) ==
    IF kind = "transform" THEN SecondOr(row, "student_dimension")
    ELSE SecondOr(row, "FULL_REFRESH")

\* The token is one the endpoint dispatches.
Recognized(kind, token) ==
    IF kind = "transform" THEN token \in TransformationNames
    ELSE KnownJobType(token)

MethodsFor(kind, token) ==
    IF kind = "transform" THEN <<MethodMap(token)>> ELSE JobMethods(token)

Fresh(hh, row) ==
    [hh EXCEPT !.todo = @ - 1, !.pos = @ + 1, !.reads = 0,
               !.idx = row[1], !.job = TokenOf(hh.kind, row),
               !.methods = <<>>, !.mi = 1, !.si = 1, !.records = 0,
               !.pending_count = 0, !.session = "none", !.logged = <<>>,
               !.trace = <<Event("row", TokenOf(hh.kind, row), "", row[1])>>,
               !.start = <<>>, !.pre = <<>>]

\* with SnowflakeConnection() as session: __enter__ raises before a session
\* is built.
ConnectFail(Row) ==
    /\ AtRow
    /\ h' = Excepted(Fresh(h, Row), Row[1], "connect", "closed")
    /\ job_state' = FinallyAfter(h.kind, ErrorsAfter(h.kind, job_state), h.job_id)
    /\ UNCHANGED <<raw, cur, agg, dispatched, loop, peer>>

\* with SnowflakeConnection() as session: the session is built and
\* get_current_database() raises, so __enter__ raises with the session open.
ConnectLost(Row) ==
    /\ AtRow
    /\ h' = [Excepted(Fresh(h, Row), Row[1], "connect", "closed") EXCEPT !.session = "open"]
    /\ job_state' = FinallyAfter(h.kind, ErrorsAfter(h.kind, job_state), h.job_id)
    /\ UNCHANGED <<raw, cur, agg, dispatched, loop, peer>>

\* The session opens and DataIngestionPipeline(session) or
\* TransformationEngine(session) raises: both constructors call
\* session.get_current_database() inside the with block, before the token is
\* looked at, so this happens to known and unknown tokens alike.
InitRaise(Row) ==
    /\ AtRow
    /\ \E closing \in CloseOutcomes :
           h' = Excepted([Fresh(h, Row) EXCEPT !.session = "open"], Row[1], "init", closing)
    /\ job_state' = FinallyAfter(h.kind, ErrorsAfter(h.kind, job_state), h.job_id)
    /\ UNCHANGED <<raw, cur, agg, dispatched, loop, peer>>

\* The session opens and the token selects a branch of the chain.
BeginJob(Row) ==
    /\ AtRow
    /\ Recognized(h.kind, TokenOf(h.kind, Row))
    /\ h' = [Fresh(h, Row) EXCEPT !.phase = "run", !.session = "open",
                                  !.methods = MethodsFor(h.kind, TokenOf(h.kind, Row)),
                                  !.start = raw]
    /\ UNCHANGED <<raw, cur, agg, job_state, dispatched, loop, peer>>

\* The session opens and the token falls to the else branch: run_etl and
\* transform append a message and go on, execute_etl_job raises ValueError.
RejectUnknown(Row) ==
    /\ AtRow
    /\ ~Recognized(h.kind, TokenOf(h.kind, Row))
    /\ \E closing \in CloseOutcomes :
        LET tok == TokenOf(h.kind, Row)
            f == [Fresh(h, Row) EXCEPT !.session = "open"]
            g == [f EXCEPT !.results =
                      Append(@, <<Row[1], IF h.kind = "run_etl" THEN UnknownJobMsg(tok)
                                          ELSE UnknownTransformationMsg(tok)>>)]
        IN  IF h.kind \in {"run_etl", "transform"}
            THEN /\ h' = Exit(g, closing)
                 /\ job_state' = job_state
            ELSE /\ h' = Excepted(f, Row[1], tok, closing)
                 /\ job_state' = FinallyAfter(h.kind, ErrorsAfter(h.kind, job_state), h.job_id)
    /\ UNCHANGED <<raw, cur, agg, dispatched, loop, peer>>

\* ---------------------------------------------------- steps of a job
Running == h.phase = "run" /\ h.mi <= Len(h.methods)

M == h.methods[h.mi]

\* The next statement of the running method is s.
At(s) ==
    /\ Running
    /\ h.si <= Len(MethodStmts(M))
    /\ MethodStmts(M)[h.si] = s

\* The method is entered with its first step.
Entered(hh) ==
    IF hh.si = 1
    THEN [hh EXCEPT !.trace = Append(@, Event("call", M, "", 0)),
                    !.pre = IF M \in BatchMethods
                            THEN [raw |-> raw[RawOf(M)], cur |-> cur[CuratedOf(M)]]
                            ELSE IF M \in AggMethods
                            THEN [out |-> agg[AggOf(M)]]
                            ELSE <<>>]
    ELSE hh

\* session.sql(...).collect() of statement s ran; n is the count it gave.
Issued(hh, s, n) ==
    [hh EXCEPT !.trace = Append(@, Event("sql", M, s, n))]

\* session.sql(...).collect() of statement s raised.
Failed(hh, s) ==
    [hh EXCEPT !.trace = Append(@, Event("sqlfail", M, s, 0))]

\* The method returns v to the dispatcher: records += v.
Returned(hh, v) ==
    [hh EXCEPT !.records = @ + v, !.trace = Append(@, Event("ret", M, "", v)),
               !.mi = @ + 1, !.si = 1, !.pending_count = 0,
               !.clean = IF M \in BatchMethods THEN @ \cup {RawOf(M)} ELSE @]

Advanced(hh) == [hh EXCEPT !.si = @ + 1]

\* The curated store became c: an aggregate computed before a change of the
\* store is no longer one of the store as it is.
Wrote(hh, c) ==
    [hh EXCEPT !.clean = IF c = cur THEN @ ELSE @ \ AggTables]

\* After a statement of a batch processor: the method goes on to its next
\* statement, or returns v after its last one.
Stepped(hh, v) ==
    IF hh.si = Len(MethodStmts(M)) THEN Returned(hh, v) ELSE Advanced(hh)

\* What a batch processor returns after its mark statement.
BatchResult(m, pending_count) ==
    IF m = "transform_assignments" THEN 0 ELSE pending_count

\* pending_count = self._get_pending_count(table); if 0: return 0
CountPending ==
    /\ At("count")
    /\ LET n == PendingCount(raw[RawOf(M)])
           e == Issued(Entered(h), "count", n)
       IN  h' = IF n = 0 THEN Returned(e, 0)
                ELSE Advanced([e EXCEPT !.pending_count = n])
    /\ UNCHANGED <<raw, cur, agg, job_state, dispatched, loop, peer>>

\* The MERGE / INSERT ... SELECT of a batch processor.
UpsertStmt ==
    /\ At("upsert")
    /\ ~UpsertRejected(M, raw[RawOf(M)], cur)
    /\ cur' = Upsert(M, raw[RawOf(M)], cur)
    /\ h' = Wrote(Stepped(Issued(Entered(h), "upsert", 0),
                           BatchResult(M, h.pending_count)),
                   Upsert(M, raw[RawOf(M)], cur))
    /\ UNCHANGED <<raw, agg, job_state, dispatched, loop, peer>>

\* _mark_processed(table); the batch processor returns after it.
MarkStmt ==
    /\ At("mark")
    /\ raw' = [raw EXCEPT ![RawOf(M)] = MarkProcessed(@)]
    /\ h' = Stepped(Issued(Entered(h), "mark", Cardinality(PendingIdx(raw[RawOf(M)]))),
                    BatchResult(M, h.pending_count))
    /\ UNCHANGED <<cur, agg, job_state, dispatched, loop, peer>>

\* transform_students
TransformStudents ==
    /\ At("update")
    /\ M = "transform_students"
    /\ \E U \in SUBSET StaleCandidates(cur[DIM_STUDENTS]) :
         /\ cur' = [cur EXCEPT ![DIM_STUDENTS] = SetCurrent(@, U)]
         /\ h' = Wrote(Returned(Issued(Entered(h), "update", Cardinality(U)),
                                Cardinality(U)),
                       [cur EXCEPT ![DIM_STUDENTS] = SetCurrent(@, U)])
    /\ UNCHANGED <<raw, agg, job_state, dispatched, loop, peer>>

\* transform_courses
TransformCourses ==
    /\ At("update")
    /\ M = "transform_courses"
    /\ LET U == NotCurrent(cur[DIM_COURSES])
       IN  /\ cur' = [cur EXCEPT ![DIM_COURSES] = SetCurrent(@, U)]
           /\ h' = Wrote(Returned(Issued(Entered(h), "update", Cardinality(U)),
                                  Cardinality(U)),
                         [cur EXCEPT ![DIM_COURSES] = SetCurrent(@, U)])
    /\ UNCHANGED <<raw, agg, job_state, dispatched, loop, peer>>

\* transform_enrollments, transform_submissions, transform_activity_logs:
\* no statement, return 0.
NoopTransform ==
    /\ Running
    /\ M \in NoopTransforms
    /\ h' = Returned(Entered(h), 0)
    /\ UNCHANGED <<raw, cur, agg, job_state, dispatched, loop, peer>>

RECURSIVE RowCount(_)
\* SELECT COUNT(*) of an aggregate table
RowCount(batches) ==
    IF batches = <<>> THEN 0
    ELSE Cardinality(Head(batches)) + RowCount(Tail(batches))

\* TRUNCATE TABLE of an aggregation runner
AggTruncate ==
    /\ At("truncate")
    /\ agg' = [agg EXCEPT ![AggOf(M)] = <<>>]
    /\ h' = Advanced(Issued(Entered(h), "truncate", 0))
    /\ UNCHANGED <<raw, cur, job_state, dispatched, loop, peer>>

\* INSERT INTO ... SELECT ... GROUP BY of an aggregation runner;
\* calculated_at is CURRENT_TIMESTAMP().
AggInsert ==
    /\ At("insert")
    /\ agg' = [agg EXCEPT ![AggOf(M)] = Append(@, AggRows(M, cur, Clock(h)))]
    /\ h' = Advanced(Issued([h EXCEPT !.reads = @ + 1,
                                      !.clean = @ \cup {AggOf(M)}], "insert",
                             Cardinality(AggRows(M, cur, Clock(h)))))
    /\ UNCHANGED <<raw, cur, job_state, dispatched, loop, peer>>

\* SELECT COUNT(*) of an aggregation runner, and its return.
AggCount ==
    /\ At("select_count")
    /\ LET n == RowCount(agg[AggOf(M)])
       IN  h' = Returned(Issued(h, "select_count", n), n)
    /\ UNCHANGED <<raw, cur, agg, job_state, dispatched, loop, peer>>

RiskRows == UNION {agg[AGG_STUDENT_COURSE_PERFORMANCE][i] :
                      i \in DOMAIN agg[AGG_STUDENT_COURSE_PERFORMANCE]}

\* calculate_student_risk_scores: len(result) of the HAVING query; the scores
\* it tests are not kept in the model, so any number of the candidates passes.
RiskScores ==
    /\ At("select")
    /\ \E n \in 0..Cardinality(RiskCandidates(RiskRows)) :
         h' = Returned(Issued(Entered(h), "select", n), n)
    /\ UNCHANGED <<raw, cur, agg, job_state, dispatched, loop, peer>>

\* A statement raises (the store fails, or the MERGE is rejected): the store
\* is unchanged, the exception leaves the method and the with-block and
\* reaches the except clause of the row.
StmtRaise ==
    /\ Running
    /\ h.si <= Len(MethodStmts(M))
    /\ \E closing \in CloseOutcomes :
           h' = [Excepted(Failed(Entered(h), MethodStmts(M)[h.si]), h.idx, M, closing)
                   EXCEPT !.clean = IF M \in BatchMethods THEN @ \ {RawOf(M)} ELSE @]
    /\ job_state' = FinallyAfter(h.kind, ErrorsAfter(h.kind, job_state), h.job_id)
    /\ UNCHANGED <<raw, cur, agg, dispatched, loop, peer>>

\* Every method of the job returned: the counters are updated, the reply row
\* appended and the session closed.
CompleteJob ==
    /\ h.phase = "run"
    /\ h.mi > Len(h.methods)
    /\ job_state' = FinallyAfter(h.kind, Recorded(h.kind, job_state, h.records, Clock(h)),
                                 h.job_id)
    /\ \E closing \in CloseOutcomes : h' = Completed(h, closing)
    /\ UNCHANGED <<raw, cur, agg, dispatched, loop, peer>>

\* return {"data": results}; the coroutine of execute_etl_job ends.
Respond ==
    /\ h.kind # "idle"
    /\ h.phase = "next"
    /\ h.todo = 0
    /\ h' = Idle
    /\ UNCHANGED <<raw, cur, agg, job_state, dispatched, loop, peer>>

JobIds == {"j1"}

Next ==
    \/ \E t \in RawTables : \E p \in Payloads(t) : Produce(t, p)
    \/ \E n \in 1..MaxBatch : RunEtl(n)
    \/ \E n \in 1..MaxBatch : Transform(n)
    \/ \E j \in JobIds : ExecuteEtlJob(j)
    \/ \E row \in NextRows : ConnectFail(row)
    \/ \E row \in NextRows : ConnectLost(row)
    \/ \E row \in NextRows : InitRaise(row)
    \/ \E row \in NextRows : BeginJob(row)
    \/ \E row \in NextRows : RejectUnknown(row)
    \/ CountPending
    \/ UpsertStmt
    \/ MarkStmt
    \/ TransformStudents
    \/ TransformCourses
    \/ NoopTransform
    \/ AggTruncate
    \/ AggInsert
    \/ AggCount
    \/ RiskScores
    \/ StmtRaise
    \/ CompleteJob
    \/ Respond

Spec == Init /\ [][Next]_vars

\* The producer writes while the service is serving no request.
ProduceBetween(t, p) == h.kind = "idle" /\ Produce(t, p)

\* The service with a producer that writes only between requests.
NextQuiet ==
    \/ \E t \in RawTables : \E p \in Payloads(t) : ProduceBetween(t, p)
    \/ \E n \in 1..MaxBatch : RunEtl(n)
    \/ \E n \in 1..MaxBatch : Transform(n)
    \/ \E j \in JobIds : ExecuteEtlJob(j)
    \/ \E row \in NextRows : ConnectFail(row)
    \/ \E row \in NextRows : ConnectLost(row)
    \/ \E row \in NextRows : InitRaise(row)
    \/ \E row \in NextRows : BeginJob(row)
    \/ \E row \in NextRows : RejectUnknown(row)
    \/ CountPending
    \/ UpsertStmt
    \/ MarkStmt
    \/ TransformStudents
    \/ TransformCourses
    \/ NoopTransform
    \/ AggTruncate
    \/ AggInsert
    \/ AggCount
    \/ RiskScores
    \/ StmtRaise
    \/ CompleteJob
    \/ Respond

SpecQuiet == Init /\ [][NextQuiet]_vars

\* The same service started over the filled warehouse.
SpecSeeded == InitSeeded /\ [][NextQuiet]_vars

\* The producer writes to a raw table while a batch method is between its
\* statements on that table.
ProduceDuring(t, p) == Reading(t) /\ Produce(t, p)

\* The service over the filled warehouse with a producer that writes only
\* into the table being read.
NextRacing ==
    \/ \E t \in RawTables : \E p \in Payloads(t) : ProduceDuring(t, p)
    \/ \E n \in 1..MaxBatch : RunEtl(n)
    \/ \E n \in 1..MaxBatch : Transform(n)
    \/ \E j \in JobIds : ExecuteEtlJob(j)
    \/ \E row \in NextRows : ConnectFail(row)
    \/ \E row \in NextRows : ConnectLost(row)
    \/ \E row \in NextRows : InitRaise(row)
    \/ \E row \in NextRows : BeginJob(row)
    \/ \E row \in NextRows : RejectUnknown(row)
    \/ CountPending
    \/ UpsertStmt
    \/ MarkStmt
    \/ TransformStudents
    \/ TransformCourses
    \/ NoopTransform
    \/ AggTruncate
    \/ AggInsert
    \/ AggCount
    \/ RiskScores
    \/ StmtRaise
    \/ CompleteJob
    \/ Respond

SpecRacing == InitSeeded /\ [][NextRacing]_vars

\* ------------------------------------------- handlers on the event loop
(* The endpoints are async def coroutines served by one uvicorn process on *)
(* one event loop.  The loop runs one task at a time and takes another only*)
(* when the running one awaits or returns.  Here the job of a request is   *)
(* one step that returns a count or raises (the statements it runs are the *)
(* steps of Spec); the += on the shared counter is a load and a store.     *)

\* Every statement awaits: a loop that may switch tasks after any step.
AwaitsEverywhere(pc) == TRUE

\* The statement at pc of a handler contains an await expression.  No
\* statement of run_etl_snowflake, transform_snowflake or execute_etl_job
\* does: session.sql(...).collect() is a blocking call.
Awaits(pc) == FALSE

\* The task the loop runs after task i made the step at pc.
AfterStep(i, pc) == IF Awaits(pc) THEN 0 ELSE i

HandlerKinds == {"run_etl", "transform", "execute_etl_job"}

\* A request arrives while others may be in progress: the server creates
\* the task of its handler.
Accept(i, kind) ==
    /\ h.kind = "idle"
    /\ dispatched < MaxJobs
    /\ loop.co[i].pc = "none"
    /\ loop' = [loop EXCEPT !.co[i].pc = "ready", !.co[i].kind = kind]
    /\ dispatched' = dispatched + 1
    /\ UNCHANGED <<raw, cur, agg, job_state, h, peer>>

\* The loop is free and runs a task that is waiting.
Resume(i) ==
    /\ loop.running = 0
    /\ loop.co[i].pc # "none"
    /\ loop' = [loop EXCEPT !.running = i]
    /\ UNCHANGED <<raw, cur, agg, job_state, h, dispatched, peer>>

\* The job of the row ran and its steps returned n records in all.
JobReturns(i, n) ==
    /\ loop.running = i
    /\ loop.co[i].pc = "ready"
    /\ loop' = [loop EXCEPT !.co[i].records = n, !.co[i].pc = "load_records",
                            !.running = AfterStep(i, "ready")]
    /\ UNCHANGED <<raw, cur, agg, job_state, h, dispatched, peer>>

\* The job of the row raised: run_etl_snowflake and execute_etl_job count
\* the error, transform_snowflake does not.
JobRaises(i) ==
    /\ loop.running = i
    /\ loop.co[i].pc = "ready"
    /\ loop' = [loop EXCEPT !.co[i].pc = IF loop.co[i].kind = "transform"
                                         THEN "return" ELSE "load_errors",
                            !.running = AfterStep(i, "ready")]
    /\ UNCHANGED <<raw, cur, agg, job_state, h, dispatched, peer>>

\* The request ran no job: its row named an unknown job type or
\* transformation (a message is appended and the loop goes on), or it had no
\* rows.  No counter is read or written.  execute_etl_job raises ValueError
\* on an unknown job type instead, which is a step of JobRaises.
JobSkips(i) ==
    /\ loop.running = i
    /\ loop.co[i].pc = "ready"
    /\ loop.co[i].kind \in {"run_etl", "transform"}
    /\ loop' = [loop EXCEPT !.co[i].pc = "return",
                            !.running = AfterStep(i, "ready")]
    /\ UNCHANGED <<raw, cur, agg, job_state, h, dispatched, peer>>

\* job_state[...] += ...: the current value of the counter is read
LoadCounter(i) ==
    /\ loop.running = i
    /\ loop.co[i].pc \in {"load_records", "load_errors"}
    /\ loop' = [loop EXCEPT
                  !.co[i].reg = IF loop.co[i].pc = "load_records"
                                THEN job_state.records_processed
                                ELSE job_state.errors,
                  !.co[i].pc = IF loop.co[i].pc = "load_records"
                               THEN "store_records" ELSE "store_errors",
                  !.running = AfterStep(i, loop.co[i].pc)]
    /\ UNCHANGED <<raw, cur, agg, job_state, h, dispatched, peer>>

\* job_state[...] += ...: the sum of the value read and the increment is
\* stored (with last_run after records_processed: datetime.utcnow() is read
\* by run_etl_snowflake and execute_etl_job, each reading later than the
\* one before).
StoreCounter(i) ==
    /\ loop.running = i
    /\ loop.co[i].pc \in {"store_records", "store_errors"}
    /\ LET c == loop.co[i]
       IN  IF c.pc = "store_records"
           THEN /\ job_state' = Recorded(c.kind,
                                    [job_state EXCEPT !.records_processed = c.reg],
                                    c.records, loop.clock + 1)
                /\ loop' = [loop EXCEPT !.clock = IF c.kind = "transform" THEN @ ELSE @ + 1,
                                        !.co[i].done = @ + c.records,
                                        !.co[i].pc = "return",
                                        !.running = AfterStep(i, c.pc)]
           ELSE /\ job_state' = ErrorsAfter(c.kind, [job_state EXCEPT !.errors = c.reg])
                /\ loop' = [loop EXCEPT !.co[i].failed = @ + 1,
                                        !.co[i].pc = "return",
                                        !.running = AfterStep(i, c.pc)]
    /\ UNCHANGED <<raw, cur, agg, h, dispatched, peer>>

\* The handler returns its reply: the task ends and the loop is free.
Return(i) ==
    /\ loop.running = i
    /\ loop.co[i].pc = "return"
    /\ loop' = [loop EXCEPT !.co[i].pc = "none", !.co[i].kind = "",
                            !.co[i].records = 0, !.co[i].reg = 0,
                            !.running = 0]
    /\ UNCHANGED <<raw, cur, agg, job_state, h, dispatched, peer>>

NextLoop ==
    \/ \E i \in 1..MaxHandlers : \E k \in HandlerKinds : Accept(i, k)
    \/ \E i \in 1..MaxHandlers : Resume(i)
    \/ \E i \in 1..MaxHandlers : \E n \in 0..MaxRows : JobReturns(i, n)
    \/ \E i \in 1..MaxHandlers : JobRaises(i)
    \/ \E i \in 1..MaxHandlers : JobSkips(i)
    \/ \E i \in 1..MaxHandlers : LoadCounter(i)
    \/ \E i \in 1..MaxHandlers : StoreCounter(i)
    \/ \E i \in 1..MaxHandlers : Return(i)

\* Requests that arrive while others are in progress.
SpecLoop == Init /\ [][NextLoop]_vars

\* ------------------------------------- the status helpers, called directly
\* The raw_id lists tried: any set of the ids a table can hold, and [].
ErrorIdLists == SUBSET (1..MaxRows)

\* DataIngestionPipeline(session)._mark_processed(t)
MarkProcessedCall(t) ==
    /\ h.kind = "idle"
    /\ raw' = [raw EXCEPT ![t] = MarkProcessed(@)]
    /\ UNCHANGED <<cur, agg, job_state, h, dispatched, loop, peer>>

\* DataIngestionPipeline(session)._mark_error(t, error_ids)
MarkErrorCall(t, error_ids) ==
    /\ h.kind = "idle"
    /\ raw' = [raw EXCEPT ![t] = MarkError(@, error_ids)]
    /\ UNCHANGED <<cur, agg, job_state, h, dispatched, loop, peer>>

NextPipeline ==
    \/ \E t \in RawTables : \E p \in Payloads(t) : Produce(t, p)
    \/ \E t \in RawTables : MarkProcessedCall(t)
    \/ \E t \in RawTables : \E ids \in ErrorIdLists : MarkErrorCall(t, ids)

\* The producer and the two status helpers of the pipeline object.
SpecPipeline == Init /\ [][NextPipeline]_vars

\* --------------------------------- sessions and the read-only endpoints
(* SnowflakeConnection.__enter__ builds the session and then logs          *)
(* session.get_current_database(); any exception is logged and raised      *)
(* again.  The with statement calls __exit__ only when __enter__ returned, *)
(* so a session that was built when __enter__ raises is not closed.        *)
(* __exit__ calls session.close() and logs an exception of it as a warning.*)

(* What can happen to the with-block of health_check: ok; create: building *)
(* the session raises; lost: get_current_database() raises after the       *)
(* session was built; probe: SELECT 1 raises; close: session.close()       *)
(* raises in __exit__; probe_close: SELECT 1 raises and then               *)
(* session.close() raises in __exit__.                                     *)
HealthOutcomes == {"ok", "create", "lost", "probe", "close", "probe_close"}

\* A health check that reports the store connected whatever happened.
SfConnectedAlways(outcome) == TRUE

\* sf_connected: False, set to True after the probe query returned.
SfConnected(outcome) == outcome \in {"ok", "close"}

\* The session of the with-block when the handler is done with it.
SessionAfter(outcome) ==
    CASE outcome = "create" -> "none"
      [] outcome = "lost" -> "open"
      [] outcome \in {"close", "probe_close"} -> "close_failed"
      [] OTHER -> "closed"

\* logger.warning lines of the health check.
HealthWarnings(outcome) ==
    CASE outcome \in {"create", "lost"} -> <<ErrorMsg("connect")>>
      [] outcome = "probe" -> <<ErrorMsg("probe")>>
      [] outcome = "close" -> <<ErrorMsg("close")>>
      [] outcome = "probe_close" -> <<ErrorMsg("close"), ErrorMsg("probe")>>
      [] OTHER -> <<>>

\* HealthResponse(status="healthy", timestamp=..., version="1.0.0",
\*                snowflake_connected=sf_connected)
HealthResponse(outcome, at) ==
    [status |-> "healthy", timestamp |-> at, version |-> "1.0.0",
     snowflake_connected |-> SfConnected(outcome)]

\* The body of GET /status_get.
StatusResponse(js) ==
    [status |-> StatusOf(js), last_run |-> js.last_run,
     records_processed |-> js.records_processed, errors |-> js.errors,
     running_jobs |-> js.running_jobs]

\* The body of GET /metrics.
MetricsResponse(js) ==
    [total_records_processed |-> js.records_processed, total_errors |-> js.errors,
     active_jobs |-> ActiveJobs(js), uptime |-> "healthy"]

\* json.dumps(status) of POST /status: the text of the status object, in
\* which running_jobs is the number of running jobs.
StatusJson(js) ==
    [json |-> [status |-> StatusOf(js), last_run |-> js.last_run,
               records_processed |-> js.records_processed, errors |-> js.errors,
               running_jobs |-> Len(js.running_jobs)]]

\* GET /health.  The inner except takes every exception of the with-block,
\* so the reply is built on every path.  The request is counted like the
\* others, which makes its timestamp later than every earlier reading.
HealthCheck(outcome) ==
    /\ h.kind = "idle"
    /\ dispatched < MaxJobs
    /\ dispatched' = dispatched + 1
    /\ h' = [Idle EXCEPT !.kind = "health_check",
                         !.session = SessionAfter(outcome),
                         !.logged = HealthWarnings(outcome),
                         !.results = <<HealthResponse(outcome, ClockOf(dispatched + 1, Idle))>>]
    /\ UNCHANGED <<raw, cur, agg, job_state, loop, peer>>

\* GET /status_get
GetStatusHttp ==
    /\ h.kind = "idle"
    /\ h' = [Idle EXCEPT !.kind = "get_status_http",
                         !.results = <<StatusResponse(job_state)>>]
    /\ UNCHANGED <<raw, cur, agg, job_state, dispatched, loop, peer>>

\* GET /metrics
GetMetrics ==
    /\ h.kind = "idle"
    /\ h' = [Idle EXCEPT !.kind = "get_metrics",
                         !.results = <<MetricsResponse(job_state)>>]
    /\ UNCHANGED <<raw, cur, agg, job_state, dispatched, loop, peer>>

\* POST /status with n rows [row_index]: one reply row per request row.
GetStatus(n) ==
    /\ h.kind = "idle"
    /\ h' = [Idle EXCEPT !.kind = "get_status_snowflake",
                         !.results = [i \in 1..n |-> <<i - 1, StatusJson(job_state)>>]]
    /\ UNCHANGED <<raw, cur, agg, job_state, dispatched, loop, peer>>

ReadKinds == {"health_check", "get_status_http", "get_metrics", "get_status_snowflake"}

NextService ==
    \/ \E n \in 1..MaxBatch : RunEtl(n)
    \/ \E n \in 1..MaxBatch : Transform(n)
    \/ \E j \in JobIds : ExecuteEtlJob(j)
    \/ \E row \in NextRows : ConnectFail(row)
    \/ \E row \in NextRows : ConnectLost(row)
    \/ \E row \in NextRows : InitRaise(row)
    \/ \E row \in NextRows : BeginJob(row)
    \/ \E row \in NextRows : RejectUnknown(row)
    \/ CountPending
    \/ UpsertStmt
    \/ MarkStmt
    \/ TransformStudents
    \/ TransformCourses
    \/ NoopTransform
    \/ AggTruncate
    \/ AggInsert
    \/ AggCount
    \/ RiskScores
    \/ StmtRaise
    \/ CompleteJob
    \/ Respond
    \/ \E o \in HealthOutcomes : HealthCheck(o)
    \/ GetStatusHttp
    \/ GetMetrics
    \/ \E n \in 0..MaxBatch : GetStatus(n)

\* Every endpoint of the service over the filled warehouse, with no producer.
SpecService == InitSeeded /\ [][NextService]_vars

\* ------------------------------------------------ two workers, one store
(* The service is served by a pool of workers.  A worker is a process with *)
(* its own job_state and its own event loop; all of them send their        *)
(* statements to the same warehouse, where each statement is atomic.  h    *)
(* and job_state are those of the worker that takes the next step, peer    *)
(* holds those of the other worker.                                        *)

\* The next step is taken by the other worker.
Switch ==
    /\ h' = peer.h
    /\ job_state' = peer.job_state
    /\ peer' = [h |-> h, job_state |-> job_state]
    /\ UNCHANGED <<raw, cur, agg, dispatched, loop>>

\* The raw tables the producer writes to while the two workers run.
WorkerFeeds == {RAW_COURSES, RAW_ACTIVITY_LOGS}

\* Each worker is sent POST /run_etl requests of one FULL_REFRESH row.
NextWorkers ==
    \/ \E t \in WorkerFeeds : \E p \in Payloads(t) : ProduceBetween(t, p)
    \/ RunEtl(1)
    \/ BeginJob(<<h.pos, "FULL_REFRESH">>)
    \/ CountPending
    \/ UpsertStmt
    \/ MarkStmt
    \/ TransformStudents
    \/ TransformCourses
    \/ AggTruncate
    \/ AggInsert
    \/ AggCount
    \/ RiskScores
    \/ CompleteJob
    \/ Respond
    \/ Switch

\* The service starts with two workers over the filled warehouse.
InitWorkers ==
    /\ raw = SeededRaw
    /\ cur = SeededCur
    /\ agg = [t \in AggTables |-> <<>>]
    /\ job_state = NoPeer.job_state
    /\ h = Idle
    /\ dispatched = 0
    /\ loop = LoopIdle
    /\ peer = NoPeer

SpecWorkers == InitWorkers /\ [][NextWorkers]_vars

\* ==================================================================== claims
Last(seq) == seq[Len(seq)]

\* The step is session.sql(...) raising inside the running method.
StmtFails == h'.phase = "next" /\ Last(h'.trace).e = "sqlfail"

\* The step is a statement of the running method that ran (and not a write of
\* the producer).
StmtRuns == h'.phase = "run" /\ Last(h'.trace).e # "produce"

\* C1: idempotence of a batch processor.  When a process_* method is called
\* again after a call of it returned, and no row was written to its raw table
\* in between, the second call returns 0 (its count statement finds nothing)
\* and the curated store and the raw tables are the same after it as before.
C1_Idempotence ==
    [][(At("count") /\ RawOf(M) \in h.clean /\ StmtRuns)
         => /\ Last(h'.trace) = Event("ret", M, "", 0)
            /\ h'.records = h.records
            /\ cur' = cur
            /\ raw' = raw]_vars

\* A STUDENTS job that processed a row, then a second STUDENTS job of the same
\* request whose process_students returned 0.
C1_Witness ==
    /\ Len(h.results) >= 1
    /\ h.results[1][2].text = "ETL completed"
    /\ h.results[1][2].subject = "STUDENTS"
    /\ h.results[1][2].records >= 1
    /\ Len(cur[DIM_STUDENTS]) >= 1
    /\ h.pos = 2
    /\ Len(h.trace) >= 4
    /\ h.trace[1].m = "STUDENTS"
    /\ h.trace[2] = Event("call", "process_students", "", 0)
    /\ h.trace[4] = Event("ret", "process_students", "", 0)

\* C2: all-or-nothing batch.  When the upsert statement of a batch processor
\* raises, every row of its raw table has the status it had when the method
\* was called (none became PROCESSED, the PENDING set is the same), the
\* curated store is unchanged, no later statement of the job runs and the
\* exception reaches the caller, which logs it and reports it.
C2_AllOrNothing ==
    [][(At("upsert") /\ StmtFails)
         => /\ \A i \in DOMAIN h'.pre.raw : raw'[RawOf(M)][i] = h'.pre.raw[i]
            /\ PendingIdx(h'.pre.raw) \subseteq PendingIdx(raw'[RawOf(M)])
            /\ PendingIdx(raw'[RawOf(M)]) = PendingIdx(raw[RawOf(M)])
            /\ cur' = cur
            /\ Last(h'.logged) = ErrorMsg(M)
            /\ h.kind # "execute_etl_job" => Last(h'.results) = <<h.idx, ErrorMsg(M)>>
            /\ h.kind # "transform" => job_state'.errors = job_state.errors + 1]_vars

\* The MERGE of process_students raised with a row pending: the row is still
\* PENDING and DIM_STUDENTS is still empty.
C2_Witness ==
    /\ h.phase = "next"
    /\ Len(h.trace) >= 4
    /\ Last(h.trace) = Event("sqlfail", "process_students", "upsert", 0)
    /\ PendingIdx(raw[RAW_STUDENTS]) # {}
    /\ cur[DIM_STUDENTS] = <<>>
    /\ Last(h.logged) = ErrorMsg("process_students")

\* C3: no-op safety.  When no row of a raw table is PENDING, the batch
\* processor of that table (the five process_* methods and
\* transform_assignments, the batch of RAW_ASSIGNMENTS) issues its count
\* statement and returns 0: the call consists of that one statement, with no
\* upsert and no mark statement, and the raw tables, the curated store, the
\* aggregates and job_state are unchanged by it.
C3_NoOpSafety ==
    [][(/\ Running
        /\ M \in BatchMethods
        /\ h.si = 1
        /\ PendingIdx(raw[RawOf(M)]) = {}
        /\ StmtRuns)
         => /\ h'.trace = h.trace \o <<Event("call", M, "", 0),
                                       Event("sql", M, "count", 0),
                                       Event("ret", M, "", 0)>>
            /\ h'.records = h.records
            /\ UNCHANGED <<raw, cur, agg, job_state>>]_vars

\* One student record S1 (of either version) waiting in RAW_STUDENTS.
OnePendingS1(rows) ==
    /\ Len(rows) = 1
    /\ rows[1].key = "S1"
    /\ rows[1].status = "PENDING"

\* C4: the end-to-end student scenario.  From exactly one PENDING record S1 in
\* RAW_STUDENTS and an empty DIM_STUDENTS, process_students (with no row
\* written meanwhile) returns 1, leaves exactly one DIM_STUDENTS row, keyed S1,
\* and the raw row PROCESSED; and the call that comes next, finding that
\* state, returns 0 and changes nothing.
C4_StudentScenario ==
    [][/\ (/\ At("mark") /\ M = "process_students" /\ StmtRuns
            /\ OnePendingS1(h.pre.raw) /\ h.pre.cur = <<>>
            /\ raw[RAW_STUDENTS] = h.pre.raw)
          => /\ Last(h'.trace) = Event("ret", "process_students", "", 1)
             /\ Len(cur'[DIM_STUDENTS]) = 1
             /\ cur'[DIM_STUDENTS][1].key = "S1"
             /\ cur'[DIM_STUDENTS][1].v = h.pre.raw[1].v
             /\ raw'[RAW_STUDENTS] = <<[h.pre.raw[1] EXCEPT !.status = "PROCESSED"]>>
       /\ (/\ At("count") /\ M = "process_students" /\ StmtRuns
            /\ Len(raw[RAW_STUDENTS]) = 1
            /\ raw[RAW_STUDENTS][1].key = "S1"
            /\ raw[RAW_STUDENTS][1].status = "PROCESSED"
            /\ Len(cur[DIM_STUDENTS]) = 1)
          => /\ Last(h'.trace) = Event("ret", "process_students", "", 0)
             /\ cur' = cur
             /\ raw' = raw]_vars

\* The scenario ran: the first STUDENTS job of a request processed the one
\* record S1, the second job's process_students returned 0.
C4_Witness ==
    /\ Len(raw[RAW_STUDENTS]) = 1
    /\ raw[RAW_STUDENTS][1].key = "S1"
    /\ raw[RAW_STUDENTS][1].status = "PROCESSED"
    /\ Len(cur[DIM_STUDENTS]) = 1
    /\ cur[DIM_STUDENTS][1].key = "S1"
    /\ cur[DIM_STUDENTS][1].src = 1
    /\ h.kind = "run_etl"
    /\ Len(h.results) = 2
    /\ h.results[1][2].subject = "STUDENTS"
    /\ h.results[1][2].records >= 1
    /\ h.results[2][2].subject = "STUDENTS"
    /\ Len(h.trace) >= 4
    /\ h.trace[4] = Event("ret", "process_students", "", 0)

\* The row got as far as the if/elif chain on the token: the session was
\* opened, the pipeline and the engine were constructed, and __exit__ ran.
ChainReached(hh) ==
    /\ hh.session \in CloseOutcomes
    /\ \A k \in 1..Len(hh.logged) : hh.logged[k].subject \notin {"connect", "init"}

\* The step is the dispatcher of run_etl or execute_etl_job reaching a row
\* whose token is none of the seven job types, with the session open.
UnknownDispatched ==
    /\ AtRow
    /\ h.kind \in {"run_etl", "execute_etl_job"}
    /\ h'.pos = h.pos + 1
    /\ ChainReached(h')
    /\ Len(h'.trace) = 1
    /\ h'.trace[1].m \notin JobTypes

\* C5: an unknown job type leaves job_state untouched.  Dispatching a token
\* that is none of the seven job types, through run_etl or execute_etl_job,
\* changes none of records_processed, errors and last_run, and the message it
\* produces (the reply row, or the log line of the background job) names
\* the token.
C5_UnknownJobUntouched ==
    [][UnknownDispatched
         => /\ job_state'.records_processed = job_state.records_processed
            /\ job_state'.errors = job_state.errors
            /\ job_state'.last_run = job_state.last_run
            /\ \/ /\ h'.results # <<>>
                  /\ Last(h'.results)[2].subject = h'.trace[1].m
               \/ /\ h'.logged # <<>>
                  /\ Last(h'.logged).subject = h'.trace[1].m]_vars

\* C6: an unknown job type is rejected before any step runs.  While run_etl
\* or execute_etl_job handles a row whose token is none of the seven job
\* types, the job is never running: it has no method to call, and no method
\* was entered and no statement issued for the row.
C6_UnknownNeverRuns ==
    (/\ h.kind \in {"run_etl", "execute_etl_job"}
     /\ h.trace # <<>>
     /\ h.trace[1].m \notin JobTypes)
      => /\ h.phase = "next"
         /\ h.methods = <<>>
         /\ \A i \in DOMAIN h.trace : h.trace[i].e \notin {"call", "sql", "sqlfail"}

\* run_etl answered a BOGUS row while a student record was waiting: the
\* record is still PENDING and the reply row is the unknown-job message.
C6_Witness ==
    /\ h.kind = "run_etl"
    /\ h.trace = <<Event("row", "BOGUS", "", 0)>>
    /\ h.session = "closed"
    /\ h.results = <<<<0, UnknownJobMsg("BOGUS")>>>>
    /\ PendingIdx(raw[RAW_STUDENTS]) # {}
    /\ cur[DIM_STUDENTS] = <<>>

\* The five per-entity job types, and the batch processor and transform
\* step that belong to each.
PerEntity == {"STUDENTS", "COURSES", "ENROLLMENTS", "SUBMISSIONS", "ACTIVITY"}

ProcessorOf(job_type) ==
    CASE job_type = "STUDENTS" -> "process_students"
      [] job_type = "COURSES" -> "process_courses"
      [] job_type = "ENROLLMENTS" -> "process_enrollments"
      [] job_type = "SUBMISSIONS" -> "process_submissions"
      [] job_type = "ACTIVITY" -> "process_activity_logs"

TransformOf(job_type) ==
    CASE job_type = "STUDENTS" -> "transform_students"
      [] job_type = "COURSES" -> "transform_courses"
      [] job_type = "ENROLLMENTS" -> "transform_enrollments"
      [] job_type = "SUBMISSIONS" -> "transform_submissions"
      [] job_type = "ACTIVITY" -> "transform_activity_logs"

\* The methods entered since the loop reached the row, in order.
Calls(trace) ==
    LET c == SelectSeq(trace, LAMBDA ev : ev.e = "call")
    IN  [i \in DOMAIN c |-> c[i].m]

IsPrefix(a, b) == Len(a) <= Len(b) /\ \A i \in DOMAIN a : a[i] = b[i]

\* The row was handled to the end without an exception (other than one of
\* close(), which __exit__ keeps to itself).
RowCompleted(hh) ==
    /\ hh.phase = "next"
    /\ hh.session \in CloseOutcomes
    /\ \A k \in 1..Len(hh.logged) : hh.logged[k].subject = "close"

\* C7: dispatch of the per-entity job types.  A STUDENTS, COURSES,
\* ENROLLMENTS, SUBMISSIONS or ACTIVITY job enters that entity's batch
\* processor, then that entity's transform step, and nothing else: every
\* statement it issues belongs to one of the two, a completed job has entered
\* exactly the two, its steps leave the aggregates, the other curated tables
\* and the other raw tables as they were, and every row another raw table
\* held when the job started still has its status.
C7_PerEntityDispatch ==
    [][(h'.kind \in {"run_etl", "execute_etl_job"} /\ h'.trace # <<>>
          /\ h'.trace[1].m \in PerEntity)
         => LET job == h'.trace[1].m
                own == <<ProcessorOf(job), TransformOf(job)>>
            IN  /\ IsPrefix(Calls(h'.trace), own)
                /\ \A i \in DOMAIN h'.trace :
                      h'.trace[i].e \in {"sql", "sqlfail", "ret"}
                        => h'.trace[i].m \in {own[1], own[2]}
                /\ RowCompleted(h') => Calls(h'.trace) = own
                /\ h.phase = "run"
                      => /\ agg' = agg
                         /\ \A t \in CuratedTables \ {CuratedOf(own[1])} : cur'[t] = cur[t]
                         /\ \A t \in RawTables \ {RawOf(own[1])} : raw'[t] = raw[t]
                /\ h'.start # <<>>
                      => \A t \in RawTables \ {RawOf(own[1])} :
                            \A i \in DOMAIN h'.start[t] : raw'[t][i] = h'.start[t][i]]_vars

\* A STUDENTS job completed with a course record waiting: it entered
\* process_students and transform_students, processed the student record and
\* left the course record PENDING and DIM_COURSES empty.
C7_Witness ==
    /\ h.kind = "run_etl"
    /\ h.trace # <<>>
    /\ h.trace[1].m = "STUDENTS"
    /\ RowCompleted(h)
    /\ Calls(h.trace) = <<"process_students", "transform_students">>
    /\ Len(cur[DIM_STUDENTS]) = 1
    /\ PendingIdx(raw[RAW_STUDENTS]) = {}
    /\ PendingIdx(raw[RAW_COURSES]) # {}
    /\ cur[DIM_COURSES] = <<>>

Composite == {"FULL_REFRESH", "INCREMENTAL"}

\* The batch processors that fill the dimension tables the upsert of batch
\* processor m joins.
DependsOn(m) ==
    {b \in BatchMethods : CuratedOf(b) \in {JoinsOf(m)[1], JoinsOf(m)[2]}}

\* C8: the composite job sequence.  FULL_REFRESH and INCREMENTAL enter the
\* same fixed sequence of methods; the six batch processors (the assignment
\* batch among them) are entered in dependency order, each after the batch
\* processors of the dimensions it joins; and an aggregation runner is
\* entered only after all six.
C8_CompositeSequence ==
    (/\ h.kind \in {"run_etl", "execute_etl_job"}
     /\ h.trace # <<>>
     /\ h.trace[1].m \in Composite)
      => LET c == Calls(h.trace)
         IN  /\ IsPrefix(c, ProcessAllRawData \o RunAllTransformations)
             /\ \A i \in DOMAIN c :
                   c[i] \in BatchMethods
                     => \A d \in DependsOn(c[i]) : \E j \in 1..(i - 1) : c[j] = d
             /\ \A i \in DOMAIN c :
                   c[i] \in AggMethods
                     => \A b \in BatchMethods : \E j \in 1..(i - 1) : c[j] = b

\* The raw table whose batch processor fills dimension table d.
RawFeeding(d) == RawOf(CHOOSE b \in BatchMethods : CuratedOf(b) = d)

\* Fact row r comes from a raw row that was PENDING when the pass started,
\* and the dimension record it references through ref was PENDING in raw
\* table t at that moment too.
BothPendingAtStart(m, r, ref, t) ==
    /\ r.src \in PendingIdx(h.start[RawOf(m)])
    /\ \E i \in PendingIdx(h.start[t]) : h.start[t][i].key = ref

\* C9: dependency ordering within one pass.  In a composite job a fact row
\* (enrollment, submission, activity log) whose referenced dimension record
\* (student, course, assignment) was PENDING when the pass started is
\* inserted with a non-null surrogate key for it, the dimension's batch
\* processor having run earlier in the pass.
C9_DependencyOrdering ==
    [][(/\ At("upsert") /\ StmtRuns
        /\ h.kind \in {"run_etl", "execute_etl_job"}
        /\ h.job \in Composite
        /\ M \in {"process_enrollments", "process_submissions", "process_activity_logs"})
         => \A j \in (DOMAIN cur'[CuratedOf(M)]) \ (DOMAIN cur[CuratedOf(M)]) :
              LET r == cur'[CuratedOf(M)][j]
              IN  /\ BothPendingAtStart(M, r, r.r1, RawFeeding(JoinsOf(M)[1])) => r.k1 # NULL
                  /\ BothPendingAtStart(M, r, r.r2, RawFeeding(JoinsOf(M)[2])) => r.k2 # NULL]_vars

\* C10: the batch result count.  A call of one of the six batch processors
\* (the five process_* methods and the assignment batch) that succeeds, with
\* no row written to its raw table meanwhile, returns the number of rows that
\* were PENDING when it was called, which is the number of rows it moved from
\* PENDING to PROCESSED.
C10_BatchResultCount ==
    [][(/\ Running /\ M \in BatchMethods /\ StmtRuns
        /\ Last(h'.trace).e = "ret"
        /\ raw[RawOf(M)] = h'.pre.raw)
         => /\ Last(h'.trace).n = Cardinality(PendingIdx(h'.pre.raw))
            /\ Last(h'.trace).n =
                  Cardinality(PendingIdx(raw[RawOf(M)]) \ PendingIdx(raw'[RawOf(M)]))]_vars

\* C11: the batched envelope of POST /run_etl.  The reply holds one
\* [row_index, message] entry per input row, in input order and with the
\* row's row_index; a row whose job fails or is unknown gets its entry like
\* any other, the loop goes on to the rows after it, and the reply is sent
\* only when every row has been handled.
C11_BatchedEnvelope ==
    [][/\ h'.kind = "run_etl"
          => /\ Len(h'.results) = h'.pos - (IF h'.phase = "run" THEN 1 ELSE 0)
             /\ \A i \in DOMAIN h'.results : h'.results[i][1] = i - 1
             /\ h.kind = "run_etl"
                   => /\ h'.pos + h'.todo = h.pos + h.todo
                      /\ IsPrefix(h.results, h'.results)
       /\ (h.kind = "run_etl" /\ h'.kind = "idle")
          => /\ h.todo = 0
             /\ Len(h.results) = h.pos]_vars

\* A request of two rows is answered: the job of row 0 raised, the job of
\* row 1 ran after it and processed a record.
C11_Witness ==
    /\ h.kind = "run_etl"
    /\ h.phase = "next"
    /\ h.todo = 0
    /\ Len(h.results) = 2
    /\ h.results[1][1] = 0
    /\ h.results[1][2].text = "Error"
    /\ h.results[2][1] = 1
    /\ h.results[2][2].text = "ETL completed"
    /\ h.results[2][2].records >= 1

RECURSIVE SumRet(_)
\* The sum of the counts the methods of the row returned.
SumRet(trace) ==
    IF trace = <<>> THEN 0
    ELSE (IF Head(trace).e = "ret" THEN Head(trace).n ELSE 0) + SumRet(Tail(trace))

\* The handler of a job (run_etl or execute_etl_job) has got every step's
\* return value; its next step records the completion.
JobReturned ==
    /\ h.kind \in {"run_etl", "execute_etl_job"}
    /\ h.phase = "run"
    /\ h.mi > Len(h.methods)

\* C12: job completion bookkeeping.  When every step of a recognized job
\* returned, records_processed grows by exactly the sum of the counts the
\* steps returned, last_run becomes the completion time (later than the
\* last_run before), and errors is unchanged.
C12_CompletionBookkeeping ==
    [][JobReturned
         => /\ job_state'.records_processed
                  = job_state.records_processed + SumRet(h.trace)
            /\ job_state'.last_run = Clock(h)
            /\ job_state'.last_run > job_state.last_run
            /\ job_state'.errors = job_state.errors
            /\ job_state'.running_jobs = job_state.running_jobs]_vars

\* A FULL_REFRESH job completed after processing a record: the count is in
\* records_processed and last_run is set.
C12_Witness ==
    /\ h.kind = "run_etl"
    /\ h.job = "FULL_REFRESH"
    /\ RowCompleted(h)
    /\ Len(h.trace) > 1
    /\ SumRet(h.trace) >= 1
    /\ job_state.records_processed = SumRet(h.trace)
    /\ job_state.last_run # NULL
    /\ job_state.errors = 0

\* C13: job failure bookkeeping.  When a step of a recognized job raises,
\* errors grows by exactly 1, records_processed and last_run are unchanged
\* (the counts of the steps that returned are dropped), and the raw, curated
\* and aggregate tables stay as the earlier steps left them.
C13_FailureBookkeeping ==
    [][(Running /\ h.kind \in {"run_etl", "execute_etl_job"} /\ StmtFails)
         => /\ job_state'.errors = job_state.errors + 1
            /\ job_state'.records_processed = job_state.records_processed
            /\ job_state'.last_run = job_state.last_run
            /\ UNCHANGED <<raw, cur, agg>>]_vars

\* A FULL_REFRESH job processed a student record and then raised in
\* process_courses: the student row is in DIM_STUDENTS and tagged PROCESSED,
\* errors is 1 and the count of 1 was not recorded.
C13_Witness ==
    /\ h.kind = "run_etl"
    /\ h.job = "FULL_REFRESH"
    /\ h.phase = "next"
    /\ Len(h.trace) > 1
    /\ Last(h.trace).e = "sqlfail"
    /\ Last(h.trace).m = "process_courses"
    /\ SumRet(h.trace) = 1
    /\ Len(cur[DIM_STUDENTS]) = 1
    /\ Len(raw[RAW_STUDENTS]) = 1
    /\ raw[RAW_STUDENTS][1].status = "PROCESSED"
    /\ job_state.errors = 1
    /\ job_state.records_processed = 0
    /\ job_state.last_run = NULL

\* C14: counter monotonicity.  No step of any request decreases
\* records_processed or errors.
C14_CounterMonotonicity ==
    [][/\ job_state'.records_processed >= job_state.records_processed
       /\ job_state'.errors >= job_state.errors]_vars

\* Both counters have moved: a job completed with a count and a job failed.
C14_Witness ==
    /\ job_state.records_processed >= 1
    /\ job_state.errors >= 1
    /\ h.kind = "idle"

\* The batch processors whose upsert is a MERGE on the business key.
MergeMethods == BatchMethods \ {"process_activity_logs"}

\* C17: business-key uniqueness.  The curated tables of students, courses,
\* enrollments, submissions and assignments hold at most one row per business
\* key, also after a batch with several pending records of one key.
C17_BusinessKeyUnique ==
    \A m \in MergeMethods :
        \A i, j \in DOMAIN cur[CuratedOf(m)] :
            cur[CuratedOf(m)][i].key = cur[CuratedOf(m)][j].key => i = j

\* C20: aggregation determinism.  An aggregation runner whose table holds
\* the output of its previous run, with no curated row written or changed
\* since that run, inserts output rows identical to the previous ones.
C20_AggregationDeterminism ==
    [][(At("insert") /\ StmtRuns /\ AggOf(M) \in h.clean)
         => agg'[AggOf(M)] = h.pre.out]_vars

\* The curated tables the claim on write-once fields names.
WriteOnceTables == {DIM_STUDENTS, FACT_ENROLLMENTS}

\* The PENDING rows of the raw table of m that carry the key of target row r.
PendingFor(m, r) ==
    {i \in PendingIdx(raw[RawOf(m)]) : raw[RawOf(m)][i].key = r.key}

\* C18: write-once versus mutable fields.  When process_students or
\* process_enrollments upserts a pending record whose business key is already
\* in the curated table, the mutable columns of the row take the values of
\* the new payload, and the write-once columns keep the values of the insert:
\* enrollment_date and expected_graduation of a student, student_key,
\* course_key, enrollment_type and enrolled_at of an enrollment.  No step of
\* the service changes a write-once column of an existing row.
C18_WriteOnce ==
    [][/\ \A t \in WriteOnceTables : \A i \in DOMAIN cur[t] :
             /\ i \in DOMAIN cur'[t]
             /\ cur'[t][i].key = cur[t][i].key
             /\ cur'[t][i].w = cur[t][i].w
             /\ cur'[t][i].k1 = cur[t][i].k1
             /\ cur'[t][i].k2 = cur[t][i].k2
       /\ (At("upsert") /\ StmtRuns /\ CuratedOf(M) \in WriteOnceTables)
            => \A i \in DOMAIN cur[CuratedOf(M)] :
                 \A p \in PendingFor(M, cur[CuratedOf(M)][i]) :
                     cur'[CuratedOf(M)][i].v = raw[RawOf(M)][p].v]_vars

\* Enrollment E1 was inserted with NULL keys; student S1 is in DIM_STUDENTS
\* now; a later record of E1 was processed: the row carries the new payload
\* in its mutable columns, the first one in enrollment_type and enrolled_at,
\* and its student_key is still the one of the insert.
C18_Witness ==
    /\ Len(cur[FACT_ENROLLMENTS]) = 1
    /\ Len(cur[DIM_STUDENTS]) = 1
    /\ cur[DIM_STUDENTS][1].key = cur[FACT_ENROLLMENTS][1].r1
    /\ cur[FACT_ENROLLMENTS][1].v = 1
    /\ cur[FACT_ENROLLMENTS][1].w = 0
    /\ cur[FACT_ENROLLMENTS][1].k1 = NULL
    /\ Len(raw[RAW_ENROLLMENTS]) = 2
    /\ raw[RAW_ENROLLMENTS][2].status = "PROCESSED"
    /\ cur[DIM_STUDENTS][1].v = 2
    /\ cur[DIM_STUDENTS][1].w = 0

\* The batch processors of the fact tables.
FactMethods == {"process_enrollments", "process_submissions", "process_activity_logs"}

\* The LEFT JOIN of the dimension table tbl on id finds no row.
NoDimension(tbl, id) ==
    tbl # "" /\ \A j \in DOMAIN cur[tbl] : cur[tbl][j].key # id

\* C19: unmatched references are not failures.  A pending enrollment,
\* submission or activity log whose student_id, course_id or assignment_id
\* matches no dimension row is inserted with a NULL surrogate key for that
\* reference; the batch goes on to tag its rows PROCESSED and returns the
\* count of its pending rows, the unmatched ones included; and no step of the
\* service changes the surrogate keys of a fact row once inserted, so a later
\* batch for the same business key does not correct the NULL.
C19_UnmatchedReferences ==
    [][/\ \A m \in FactMethods : \A i \in DOMAIN cur[CuratedOf(m)] :
             /\ i \in DOMAIN cur'[CuratedOf(m)]
             /\ cur'[CuratedOf(m)][i].k1 = cur[CuratedOf(m)][i].k1
             /\ cur'[CuratedOf(m)][i].k2 = cur[CuratedOf(m)][i].k2
       /\ (At("upsert") /\ StmtRuns /\ M \in FactMethods)
            => \A i \in PendingIdx(raw[RawOf(M)]) :
                 (\/ M = "process_activity_logs"
                  \/ \A j \in DOMAIN cur[CuratedOf(M)] :
                        cur[CuratedOf(M)][j].key # raw[RawOf(M)][i].key)
                 => \E j \in (DOMAIN cur'[CuratedOf(M)]) \ (DOMAIN cur[CuratedOf(M)]) :
                      /\ cur'[CuratedOf(M)][j].src = i
                      /\ cur'[CuratedOf(M)][j].key = raw[RawOf(M)][i].key
                      /\ NoDimension(JoinsOf(M)[1], raw[RawOf(M)][i].r1)
                            => cur'[CuratedOf(M)][j].k1 = NULL
                      /\ NoDimension(JoinsOf(M)[2], raw[RawOf(M)][i].r2)
                            => cur'[CuratedOf(M)][j].k2 = NULL
       /\ (At("mark") /\ StmtRuns /\ M \in FactMethods)
            => /\ \A i \in DOMAIN h.pre.raw :
                     h.pre.raw[i].status = "PENDING"
                     => raw'[RawOf(M)][i].status = "PROCESSED"
               /\ Last(h'.trace).e = "ret"
               /\ Last(h'.trace).n = PendingCount(h.pre.raw)]_vars

\* An activity log of student S1 and course C1 was processed while
\* DIM_COURSES was empty: its row has the student_key of S1 and a NULL
\* course_key, its raw row is PROCESSED.  A later record of enrollment E1 was
\* processed while S1 was in DIM_STUDENTS: the student_key of E1 is still
\* NULL.  Both jobs completed and both records were counted.
C19_Witness ==
    /\ Len(cur[FACT_ACTIVITY_LOGS]) = 1
    /\ cur[FACT_ACTIVITY_LOGS][1].k1 = 1
    /\ cur[FACT_ACTIVITY_LOGS][1].k2 = NULL
    /\ Len(raw[RAW_ACTIVITY_LOGS]) = 1
    /\ raw[RAW_ACTIVITY_LOGS][1].status = "PROCESSED"
    /\ Len(cur[DIM_STUDENTS]) = 1
    /\ cur[DIM_STUDENTS][1].key = "S1"
    /\ Len(cur[FACT_ENROLLMENTS]) = 1
    /\ cur[FACT_ENROLLMENTS][1].r1 = "S1"
    /\ cur[FACT_ENROLLMENTS][1].v = 1
    /\ cur[FACT_ENROLLMENTS][1].k1 = NULL
    /\ job_state.errors = 0
    /\ job_state.records_processed = 2

\* C16: pending-record lifecycle.  No operation of the service removes a raw
\* record, changes the status of a record that is PROCESSED or ERROR, or sets
\* a status other than PENDING, PROCESSED and ERROR: the status of a record
\* changes at most once, from PENDING to PROCESSED or from PENDING to ERROR.
C16_StatusChangesOnce ==
    [][\A t \in RawTables : \A i \in DOMAIN raw[t] :
          /\ i \in DOMAIN raw'[t]
          /\ raw'[t][i].status \in {"PENDING", "PROCESSED", "ERROR"}
          /\ raw[t][i].status # "PENDING"
                => raw'[t][i].status = raw[t][i].status]_vars

RECURSIVE SumOver(_, _)
\* The sum of field f over the task slots 1..n.
SumOver(f, n) ==
    IF n = 0 THEN 0 ELSE loop.co[n][f] + SumOver(f, n - 1)

\* C15: no lost counter updates under concurrency.  With several requests
\* in progress at once, at most one handler is between reading and writing
\* a shared counter, records_processed is the sum of the counts of the jobs
\* and transformations that completed, and errors is the number of jobs
\* that failed.
C15_NoLostUpdates ==
    /\ Cardinality({i \in 1..MaxHandlers :
                       loop.co[i].pc \in {"store_records", "store_errors"}}) <= 1
    /\ job_state.records_processed = SumOver("done", MaxHandlers)
    /\ job_state.errors = SumOver("failed", MaxHandlers)

\* Two requests are in progress at once: a handler has read
\* records_processed for its += and not yet written it, while the task of a
\* second request has been created and waits for the loop.
C15_Witness ==
    /\ \E i, j \in 1..MaxHandlers :
          /\ i # j
          /\ loop.co[i].pc = "store_records"
          /\ loop.co[i].records >= 1
          /\ loop.co[j].pc = "ready"
    /\ loop.running # 0

\* The declared order of the steps of a composite job.
DeclaredOrder ==
    <<"process_students", "process_courses", "process_enrollments",
      "process_submissions", "process_activity_logs",
      "transform_students", "transform_courses", "transform_assignments",
      "aggregate_student_performance", "aggregate_course_analytics",
      "calculate_student_risk_scores">>

\* The call, return and failure events of the row, in order.
StepEvents(trace) == SelectSeq(trace, LAMBDA ev : ev.e \in {"call", "ret", "sqlfail"})

\* C26: strictly sequential steps with abort at the first failure.  Within
\* one FULL_REFRESH or INCREMENTAL job the steps are entered in the declared
\* order; a step is entered only after the step before it returned; and
\* when a statement of step k raises, nothing of the job happens after it:
\* the failure is the last event of the row and the job is no longer
\* running.
C26_SequentialSteps ==
    (/\ h.kind \in {"run_etl", "execute_etl_job"}
     /\ h.trace # <<>>
     /\ h.trace[1].m \in Composite)
      => LET ev == StepEvents(h.trace)
         IN  /\ IsPrefix(Calls(h.trace), DeclaredOrder)
             /\ \A i \in DOMAIN ev :
                   /\ (ev[i].e = "call" /\ i > 1)
                        => ev[i - 1].e = "ret"
                   /\ ev[i].e \in {"ret", "sqlfail"}
                        => (i > 1 /\ ev[i - 1].e = "call" /\ ev[i - 1].m = ev[i].m)
             /\ \A i \in DOMAIN h.trace :
                   h.trace[i].e = "sqlfail"
                     => (i = Len(h.trace) /\ h.phase = "next")

\* A FULL_REFRESH job whose first two steps returned and whose third step,
\* process_enrollments, raised in its upsert: three steps were entered and
\* the row is over.
C26_Witness ==
    /\ h.kind = "run_etl"
    /\ h.job = "FULL_REFRESH"
    /\ Len(h.trace) > 1
    /\ Calls(h.trace) = <<"process_students", "process_courses", "process_enrollments">>
    /\ Last(h.trace).e = "sqlfail"
    /\ Last(h.trace).s = "upsert"
    /\ h.phase = "next"

\* The step is transform_snowflake reaching a row whose name is none of the
\* eight mapped names, with the session open.
UnknownTransformation ==
    /\ AtRow
    /\ h.kind = "transform"
    /\ h'.pos = h.pos + 1
    /\ ChainReached(h')
    /\ Len(h'.trace) = 1
    /\ h'.trace[1].m \notin
          {"student_dimension", "course_dimension", "assignment_dimension",
           "enrollment_fact", "submission_fact", "activity_fact",
           "student_performance_agg", "course_analytics_agg"}

\* C27: unknown transformation name on POST /transform.  The row gets a
\* reply entry with its row_index and a message that names the
\* transformation; no method is entered and no statement issued; the tables
\* and records_processed, errors and last_run are unchanged; and the loop
\* goes on to the rows after it.
C27_UnknownTransformation ==
    [][UnknownTransformation
         => /\ job_state' = job_state
            /\ UNCHANGED <<raw, cur, agg>>
            /\ h'.results = Append(h.results,
                     <<h.pos, [text |-> "Unknown transformation",
                               subject |-> h'.trace[1].m, records |-> 0]>>)
            /\ h'.phase = "next"
            /\ h'.methods = <<>>
            /\ h'.todo = h.todo - 1]_vars

\* A /transform request of two rows is answered: row 0 named an unknown
\* transformation, row 1 ran after it and completed.
C27_Witness ==
    /\ h.kind = "transform"
    /\ h.phase = "next"
    /\ h.todo = 0
    /\ Len(h.results) = 2
    /\ h.results[1][2].text = "Unknown transformation"
    /\ h.results[1][2].subject = "bogus"
    /\ h.results[2][2].text = "Transformation completed"
    /\ job_state.errors = 0

\* C28: running_jobs is always empty.  No step adds an entry to
\* job_state["running_jobs"], so the status computed from it is idle and
\* the number of active jobs is 0 in every state, also while a job is
\* executing.
C28_RunningJobsEmpty ==
    /\ job_state.running_jobs = <<>>
    /\ StatusOf(job_state) = "idle"
    /\ ActiveJobs(job_state) = 0

\* execute_etl_job is in the middle of a batch processor (its count
\* statement found a pending row) and running_jobs is empty.
C28_Witness ==
    /\ h.kind = "execute_etl_job"
    /\ Running
    /\ h.si > 1
    /\ h.pending_count >= 1
    /\ job_state.running_jobs = <<>>

\* C29: bookkeeping of POST /transform.  A transformation that returns adds
\* its count to records_processed and leaves last_run and errors as they
\* were; a transformation that raises gets an Error reply entry and leaves
\* job_state as it was; errors changes only in steps of run_etl and
\* execute_etl_job.
C29_TransformBookkeeping ==
    [][/\ (h.kind = "transform" /\ h.phase = "run" /\ h.mi > Len(h.methods))
            => /\ job_state'.records_processed
                     = job_state.records_processed + SumRet(h.trace)
               /\ job_state'.last_run = job_state.last_run
               /\ job_state'.errors = job_state.errors
       /\ (h.kind = "transform" /\ Running /\ StmtFails)
            => /\ job_state' = job_state
               /\ Len(h'.results) = Len(h.results) + 1
               /\ Last(h'.results)[2].text = "Error"
       /\ job_state'.errors # job_state.errors
            => h.kind \in {"run_etl", "execute_etl_job"}]_vars

\* A /transform row completed with a count of at least 1 after an earlier
\* job: the count is in records_processed and last_run is still the
\* completion time of that job, earlier than this request.
C29_Witness ==
    /\ h.kind = "transform"
    /\ RowCompleted(h)
    /\ Len(h.trace) > 1
    /\ SumRet(h.trace) >= 1
    /\ job_state.records_processed > SumRet(h.trace)
    /\ job_state.last_run # NULL
    /\ job_state.last_run < (dispatched - h.todo) * 10

\* The rows the producer appended to the raw table of the running method
\* after the method's upsert statement ran.
ProducedSinceUpsert(trace) ==
    LET ups == {i \in DOMAIN trace : trace[i].e = "sql" /\ trace[i].s = "upsert"}
        u == IF ups = {} THEN 0 ELSE CHOOSE i \in ups : \A j \in ups : j <= i
    IN  Cardinality({i \in DOMAIN trace : i > u /\ trace[i].e = "produce"})

\* C22: mark-processed covers exactly the eligible set.  The mark statement
\* of a batch processor turns to PROCESSED exactly the rows that were
\* PENDING when its upsert statement read the raw table, also when the
\* producer appended a PENDING row between the two statements.
C22_MarkCoversEligible ==
    [][(At("mark") /\ StmtRuns)
         => LET t == RawOf(M)
                late == ProducedSinceUpsert(h.trace)
            IN  {i \in DOMAIN raw[t] : /\ raw[t][i].status = "PENDING"
                                        /\ raw'[t][i].status = "PROCESSED"}
                  = {i \in PendingIdx(raw[t]) : i <= Len(raw[t]) - late}]_vars

\* Raw row i of batch processor m is already in the curated table: a row
\* inserted from it carries its key and payload.
AlreadyInserted(m, i) ==
    \E j \in DOMAIN cur[CuratedOf(m)] :
        /\ cur[CuratedOf(m)][j].src = i
        /\ cur[CuratedOf(m)][j].key = raw[RawOf(m)][i].key
        /\ cur[CuratedOf(m)][j].v = raw[RawOf(m)][i].v

\* C23: crash-safe reprocessing.  When a run of a batch processor was
\* interrupted after its upsert and before its mark, the rows are still
\* PENDING and already in the curated table; the upsert of the next run then
\* leaves the curated store as it is, for every entity type.
C23_ReprocessingIdempotent ==
    [][(/\ At("upsert")
        /\ StmtRuns
        /\ PendingIdx(raw[RawOf(M)]) # {}
        /\ \A i \in PendingIdx(raw[RawOf(M)]) : AlreadyInserted(M, i))
         => cur' = cur]_vars

\* C25: session release on every exit path.  Between the rows of a request,
\* and when a request is answered, every session that SnowflakeConnection
\* built for the row is closed: none was built, or close() returned.
C25_SessionReleased ==
    (h.kind # "idle" /\ h.phase = "next") => h.session \in {"none", "closed"}

\* The step is one of the four read-only handlers serving a request.
ReadStep == h.kind = "idle" /\ h'.kind \in ReadKinds

\* The health check met a failure of the store connection or of its probe.
StoreFailed(hh) ==
    \E k \in 1..Len(hh.logged) : hh.logged[k].subject \in {"connect", "probe"}

\* C30: the read-only endpoints.  A request to GET /health, GET /status_get,
\* GET /metrics or POST /status leaves job_state and every raw, curated and
\* aggregate table as they were, and the reply of GET /health has status
\* healthy, with snowflake_connected false when the connection or the probe
\* query failed.
C30_ReadOnlyEndpoints ==
    [][ReadStep
         => /\ UNCHANGED <<raw, cur, agg, job_state>>
            /\ Len(h'.results) >= 1 \/ h'.kind = "get_status_snowflake"
            /\ h'.kind = "health_check"
                 => /\ h'.results[1].status = "healthy"
                    /\ StoreFailed(h') => h'.results[1].snowflake_connected = FALSE]_vars

\* A health check whose probe query and whose close() both failed has
\* answered, after a job that completed; its timestamp is later than last_run.
C30_Witness ==
    /\ h.kind = "health_check"
    /\ h.logged = <<ErrorMsg("close"), ErrorMsg("probe")>>
    /\ h.results[1].snowflake_connected = FALSE
    /\ job_state.last_run # NULL
    /\ h.results[1].timestamp > job_state.last_run

\* The other worker runs batch processor m in a FULL_REFRESH job and is
\* between the upsert and the mark of it.
PeerBetween(m) ==
    /\ peer.h.phase = "run"
    /\ peer.h.job = "FULL_REFRESH"
    /\ peer.h.mi <= Len(peer.h.methods)
    /\ peer.h.methods[peer.h.mi] = m
    /\ peer.h.si <= Len(MethodStmts(m))
    /\ MethodStmts(m)[peer.h.si] = "mark"

\* The rows of curated table c inserted from raw row i.
InsertedFrom(c, i) == {j \in DOMAIN c : c[j].src = i}

\* The rows of curated table c that carry business key k.
Keyed(c, k) == {j \in DOMAIN c : c[j].key = k}

\* The table holds one row per business key.
UniqueKeys(tbl) == \A a, b \in DOMAIN tbl : tbl[a].key = tbl[b].key => a = b

\* The dimension tables that the upsert of m joins, and its target when it
\* is MERGE-keyed, hold one row per business key.
KeysUnique(m) ==
    /\ \A k \in 1..2 : JoinsOf(m)[k] # "" => UniqueKeys(cur[JoinsOf(m)[k]])
    /\ m # "process_activity_logs" => UniqueKeys(cur[CuratedOf(m)])

\* C24: two FULL_REFRESH jobs in flight on overlapping input.  When a worker
\* runs the upsert of a batch processor while the other worker is between
\* the upsert and the mark of the same processor, every row that was in the
\* raw table when the other worker entered the processor and is still PENDING
\* is applied a second time: the append-only activity-log table then holds
\* two rows inserted from it, a MERGE-keyed table one row for its key.  (The
\* tables the upsert matches against hold one row per key; a key held twice
\* multiplies the rows of the join.)
C24_AppliedTwice ==
    [][(/\ At("upsert") /\ StmtRuns /\ peer' = peer
        /\ M \in ProcessMethods /\ h.job = "FULL_REFRESH" /\ PeerBetween(M)
        /\ KeysUnique(M))
         => LET t == RawOf(M)
                c == CuratedOf(M)
                both == {i \in PendingIdx(raw[t]) : i <= Len(peer.h.pre.raw)}
            IN  \A i \in both :
                  IF M = "process_activity_logs"
                  THEN Cardinality(InsertedFrom(cur'[c], i)) = 2
                  ELSE Cardinality(Keyed(cur'[c], raw[t][i].key)) = 1]_vars

\* The handler counted n pending rows in the first statement of m.
Counted(hh, m, n) ==
    \E k \in DOMAIN hh.trace : hh.trace[k] = Event("sql", m, "count", n)

\* Both workers are in a FULL_REFRESH job, each has counted the one course
\* row and the one activity row as pending, and both have run the upsert of
\* process_activity_logs before either marked: DIM_COURSES holds one row for
\* the course, FACT_ACTIVITY_LOGS two rows for the activity.
C24_Witness ==
    /\ At("mark") /\ M = "process_activity_logs" /\ h.job = "FULL_REFRESH"
    /\ PeerBetween("process_activity_logs")
    /\ Len(raw[RAW_COURSES]) = 1 /\ Len(raw[RAW_ACTIVITY_LOGS]) = 1
    /\ raw[RAW_ACTIVITY_LOGS][1].status = "PENDING"
    /\ Counted(h, "process_courses", 1) /\ Counted(peer.h, "process_courses", 1)
    /\ Counted(h, "process_activity_logs", 1)
    /\ Counted(peer.h, "process_activity_logs", 1)
    /\ Cardinality(Keyed(cur[DIM_COURSES], "C1")) = 1
    /\ Cardinality(InsertedFrom(cur[FACT_ACTIVITY_LOGS], 1)) = 2
    /\ Cardinality(Keyed(cur[FACT_ACTIVITY_LOGS], "L1")) = 2

\* A worker is inside aggregation runner m: it has truncated the table and
\* not yet returned.
InFlight(hh, m) ==
    /\ hh.phase = "run"
    /\ hh.mi <= Len(hh.methods)
    /\ hh.methods[hh.mi] = m
    /\ hh.si > 1

\* The rows of an aggregate table and their group-by keys.
AggContents(t) == UNION {agg[t][i] : i \in DOMAIN agg[t]}
GroupKey(r) == [r EXCEPT !.calculated_at = 0]

\* C21: aggregation is idempotent by full recompute, also when runs overlap.
\* When no run of an aggregation runner is in flight, its table holds the
\* rows of one recompute: one row per group-by key, none left from an
\* earlier run.
C21_RecomputeIdempotent ==
    \A m \in AggMethods :
        (~InFlight(h, m) /\ ~InFlight(peer.h, m))
          => RowCount(agg[AggOf(m)])
               = Cardinality({GroupKey(r) : r \in AggContents(AggOf(m))})

====
